---------------------------- MODULE Spec2Model ----------------------------
(***************************************************************************)
(* msi-ec: MSI laptop embedded-controller driver (src/msi-ec.c).           *)
(*                                                                         *)
(* The model covers the profile catalog (CONF0..CONF42), the configuration *)
(* resolver (load_configuration), module load/unload (msi_ec_init,         *)
(* msi_ec_exit, msi_platform_probe), the capability gate                   *)
(* (msi_ec_is_visible), every sysfs/LED handler, and the read-modify-write *)
(* register primitives (ec_set_bit, ec_set_by_mask, ec_unset_by_mask) at   *)
(* the granularity of their lock / read / write / unlock steps.            *)
(***************************************************************************)
EXTENDS Integers, Sequences, FiniteSets, TLC

VARIABLES
  firmware,       \* module parameter `firmware`: <<>> is NULL, <<s>> is the string s
  debug,          \* module parameter `debug`
  ec_fw,          \* identifier held in the EC's reserved firmware-version registers
  ec,             \* the EC register file: [0..255 -> 0..255]
  conf_loaded,    \* static bool conf_loaded
  conf,           \* static struct msi_ec_conf conf
  state,          \* module lifecycle: "unloaded", "live", "failed", "exited"
  init_result,    \* return value of msi_ec_init
  registered,     \* registered kernel objects (driver, device, battery hook, LED classdevs)
  groups,         \* sysfs attribute groups present on the platform device
  battery_attrs,  \* msi_battery_groups present on the battery device
  ec_get_addr,    \* static u8 ec_get_addr
  last,           \* the last handler call: name, input, result, output, register I/O issued
  nops,           \* number of handler calls made so far
  mutex,          \* holder of each of the three mutexes (0 = free)
  th,             \* concurrent callers of the read-modify-write primitives
  ec0             \* the register file before any call was made (history)

vars == <<firmware, debug, ec_fw, ec, conf_loaded, conf, state, init_result,
          registered, groups, battery_attrs, ec_get_addr, last, nops, mutex, th,
          ec0>>

-----------------------------------------------------------------------------
(* Bounds of the model *)

\* handler calls explored after module load
MaxOps == 1

\* concurrent callers of a read-modify-write primitive
NThreads == 2

-----------------------------------------------------------------------------
(* ec_memory_configuration.h *)

\* sentinel: feature believed present, address not yet determined
MSI_EC_ADDR_UNKNOWN == 65281

\* sentinel: feature absent on this model
MSI_EC_ADDR_UNSUPP == 65282

MSI_EC_FW_VERSION_ADDRESS == 160

MSI_EC_FW_VERSION_LENGTH == 12

MSI_EC_FW_DATE_ADDRESS == 172

MSI_EC_FW_DATE_LENGTH == 8

MSI_EC_FW_TIME_ADDRESS == 180

MSI_EC_FW_TIME_LENGTH == 8

MSI_EC_KBD_BL_STATE_MASK == 3

-----------------------------------------------------------------------------
(* The profile catalog *)

\* ALLOWED_FW_0 and CONF0
CONF0 ==
  [ allowed_fw |-> <<"14C1EMS1.012", "14C1EMS1.101", "14C1EMS1.102">>,
    charge_control |-> [address |-> 239, offset_start |-> 138, offset_end |-> 128, range_min |-> 138, range_max |-> 228],
    webcam |-> [address |-> 46, block_address |-> 47, bit |-> 1],
    fn_win_swap |-> [address |-> 191, bit |-> 4, invert |-> FALSE],
    cooler_boost |-> [address |-> 152, bit |-> 7],
    shift_mode |-> [address |-> 242, modes |-> <<[name |-> "eco", value |-> 194], [name |-> "comfort", value |-> 193], [name |-> "sport", value |-> 192]>>],
    super_battery |-> [address |-> MSI_EC_ADDR_UNKNOWN, mask |-> 0],
    fan_mode |-> [address |-> 244, modes |-> <<[name |-> "auto", value |-> 13], [name |-> "silent", value |-> 29], [name |-> "basic", value |-> 77], [name |-> "advanced", value |-> 141]>>],
    cpu |-> [rt_temp_address |-> 104, rt_fan_speed_address |-> 113, rt_fan_speed_base_min |-> 25, rt_fan_speed_base_max |-> 55, bs_fan_speed_address |-> 137, bs_fan_speed_base_min |-> 0, bs_fan_speed_base_max |-> 15],
    gpu |-> [rt_temp_address |-> 128, rt_fan_speed_address |-> 137],
    leds |-> [micmute_led_address |-> 43, mute_led_address |-> 44, bit |-> 2],
    kbd_bl |-> [bl_mode_address |-> 44, bl_modes |-> <<0, 8>>, max_mode |-> 1, bl_state_address |-> 243, state_base_value |-> 128, max_state |-> 3] ]

\* ALLOWED_FW_1 and CONF1
CONF1 ==
  [ allowed_fw |-> <<"17F2EMS1.103", "17F2EMS1.104", "17F2EMS1.106", "17F2EMS1.107">>,
    charge_control |-> [address |-> 239, offset_start |-> 138, offset_end |-> 128, range_min |-> 138, range_max |-> 228],
    webcam |-> [address |-> 46, block_address |-> 47, bit |-> 1],
    fn_win_swap |-> [address |-> 191, bit |-> 4, invert |-> FALSE],
    cooler_boost |-> [address |-> 152, bit |-> 7],
    shift_mode |-> [address |-> 242, modes |-> <<[name |-> "eco", value |-> 194], [name |-> "comfort", value |-> 193], [name |-> "sport", value |-> 192], [name |-> "turbo", value |-> 196]>>],
    super_battery |-> [address |-> MSI_EC_ADDR_UNKNOWN, mask |-> 0],
    fan_mode |-> [address |-> 244, modes |-> <<[name |-> "auto", value |-> 13], [name |-> "basic", value |-> 77], [name |-> "advanced", value |-> 141]>>],
    cpu |-> [rt_temp_address |-> 104, rt_fan_speed_address |-> 113, rt_fan_speed_base_min |-> 25, rt_fan_speed_base_max |-> 55, bs_fan_speed_address |-> 137, bs_fan_speed_base_min |-> 0, bs_fan_speed_base_max |-> 15],
    gpu |-> [rt_temp_address |-> 128, rt_fan_speed_address |-> 137],
    leds |-> [micmute_led_address |-> 43, mute_led_address |-> 44, bit |-> 2],
    kbd_bl |-> [bl_mode_address |-> 44, bl_modes |-> <<0, 8>>, max_mode |-> 1, bl_state_address |-> 243, state_base_value |-> 128, max_state |-> 3] ]

\* ALLOWED_FW_2 and CONF2
CONF2 ==
  [ allowed_fw |-> <<"1552EMS1.115", "1552EMS1.118", "1552EMS1.119", "1552EMS1.120">>,
    charge_control |-> [address |-> 215, offset_start |-> 138, offset_end |-> 128, range_min |-> 138, range_max |-> 228],
    webcam |-> [address |-> 46, block_address |-> 47, bit |-> 1],
    fn_win_swap |-> [address |-> 232, bit |-> 4, invert |-> FALSE],
    cooler_boost |-> [address |-> 152, bit |-> 7],
    shift_mode |-> [address |-> 210, modes |-> <<[name |-> "eco", value |-> 194], [name |-> "comfort", value |-> 193], [name |-> "sport", value |-> 192]>>],
    super_battery |-> [address |-> 235, mask |-> 15],
    fan_mode |-> [address |-> 212, modes |-> <<[name |-> "auto", value |-> 13], [name |-> "silent", value |-> 29], [name |-> "basic", value |-> 77], [name |-> "advanced", value |-> 141]>>],
    cpu |-> [rt_temp_address |-> 104, rt_fan_speed_address |-> 113, rt_fan_speed_base_min |-> 25, rt_fan_speed_base_max |-> 55, bs_fan_speed_address |-> 137, bs_fan_speed_base_min |-> 0, bs_fan_speed_base_max |-> 15],
    gpu |-> [rt_temp_address |-> 128, rt_fan_speed_address |-> 137],
    leds |-> [micmute_led_address |-> 44, mute_led_address |-> 45, bit |-> 1],
    kbd_bl |-> [bl_mode_address |-> 44, bl_modes |-> <<0, 8>>, max_mode |-> 1, bl_state_address |-> 211, state_base_value |-> 128, max_state |-> 3] ]

\* ALLOWED_FW_3 and CONF3
CONF3 ==
  [ allowed_fw |-> <<"1592EMS1.111">>,
    charge_control |-> [address |-> 215, offset_start |-> 138, offset_end |-> 128, range_min |-> 138, range_max |-> 228],
    webcam |-> [address |-> 46, block_address |-> 47, bit |-> 1],
    fn_win_swap |-> [address |-> 232, bit |-> 4, invert |-> FALSE],
    cooler_boost |-> [address |-> 152, bit |-> 7],
    shift_mode |-> [address |-> 210, modes |-> <<[name |-> "eco", value |-> 194], [name |-> "comfort", value |-> 193], [name |-> "sport", value |-> 192]>>],
    super_battery |-> [address |-> 235, mask |-> 15],
    fan_mode |-> [address |-> 212, modes |-> <<[name |-> "auto", value |-> 13], [name |-> "silent", value |-> 29], [name |-> "basic", value |-> 77], [name |-> "advanced", value |-> 141]>>],
    cpu |-> [rt_temp_address |-> 104, rt_fan_speed_address |-> 201, rt_fan_speed_base_min |-> 25, rt_fan_speed_base_max |-> 55, bs_fan_speed_address |-> 137, bs_fan_speed_base_min |-> 0, bs_fan_speed_base_max |-> 15],
    gpu |-> [rt_temp_address |-> 128, rt_fan_speed_address |-> 137],
    leds |-> [micmute_led_address |-> 43, mute_led_address |-> 44, bit |-> 1],
    kbd_bl |-> [bl_mode_address |-> 44, bl_modes |-> <<0, 8>>, max_mode |-> 1, bl_state_address |-> 211, state_base_value |-> 128, max_state |-> 3] ]

\* ALLOWED_FW_4 and CONF4
CONF4 ==
  [ allowed_fw |-> <<"16V4EMS1.114">>,
    charge_control |-> [address |-> 215, offset_start |-> 138, offset_end |-> 128, range_min |-> 138, range_max |-> 228],
    webcam |-> [address |-> 46, block_address |-> 47, bit |-> 1],
    fn_win_swap |-> [address |-> MSI_EC_ADDR_UNKNOWN, bit |-> 4, invert |-> FALSE],
    cooler_boost |-> [address |-> 152, bit |-> 7],
    shift_mode |-> [address |-> 210, modes |-> <<[name |-> "eco", value |-> 194], [name |-> "comfort", value |-> 193], [name |-> "sport", value |-> 192]>>],
    super_battery |-> [address |-> MSI_EC_ADDR_UNKNOWN, mask |-> 15],
    fan_mode |-> [address |-> 212, modes |-> <<[name |-> "auto", value |-> 13], [name |-> "silent", value |-> 29], [name |-> "advanced", value |-> 141]>>],
    cpu |-> [rt_temp_address |-> 104, rt_fan_speed_address |-> 113, rt_fan_speed_base_min |-> 25, rt_fan_speed_base_max |-> 55, bs_fan_speed_address |-> MSI_EC_ADDR_UNKNOWN, bs_fan_speed_base_min |-> 0, bs_fan_speed_base_max |-> 15],
    gpu |-> [rt_temp_address |-> 128, rt_fan_speed_address |-> MSI_EC_ADDR_UNKNOWN],
    leds |-> [micmute_led_address |-> MSI_EC_ADDR_UNKNOWN, mute_led_address |-> MSI_EC_ADDR_UNKNOWN, bit |-> 1],
    kbd_bl |-> [bl_mode_address |-> MSI_EC_ADDR_UNKNOWN, bl_modes |-> <<0, 8>>, max_mode |-> 1, bl_state_address |-> MSI_EC_ADDR_UNSUPP, state_base_value |-> 128, max_state |-> 3] ]

\* ALLOWED_FW_5 and CONF5
CONF5 ==
  [ allowed_fw |-> <<"158LEMS1.103", "158LEMS1.105", "158LEMS1.106">>,
    charge_control |-> [address |-> 239, offset_start |-> 138, offset_end |-> 128, range_min |-> 138, range_max |-> 228],
    webcam |-> [address |-> 46, block_address |-> 47, bit |-> 1],
    fn_win_swap |-> [address |-> 191, bit |-> 4, invert |-> TRUE],
    cooler_boost |-> [address |-> 152, bit |-> 7],
    shift_mode |-> [address |-> 242, modes |-> <<[name |-> "eco", value |-> 194], [name |-> "comfort", value |-> 193], [name |-> "turbo", value |-> 196]>>],
    super_battery |-> [address |-> MSI_EC_ADDR_UNKNOWN, mask |-> 15],
    fan_mode |-> [address |-> 244, modes |-> <<[name |-> "auto", value |-> 13], [name |-> "silent", value |-> 29], [name |-> "advanced", value |-> 141]>>],
    cpu |-> [rt_temp_address |-> 104, rt_fan_speed_address |-> 113, rt_fan_speed_base_min |-> 25, rt_fan_speed_base_max |-> 55, bs_fan_speed_address |-> MSI_EC_ADDR_UNSUPP, bs_fan_speed_base_min |-> 0, bs_fan_speed_base_max |-> 15],
    gpu |-> [rt_temp_address |-> MSI_EC_ADDR_UNKNOWN, rt_fan_speed_address |-> MSI_EC_ADDR_UNKNOWN],
    leds |-> [micmute_led_address |-> 43, mute_led_address |-> 44, bit |-> 2],
    kbd_bl |-> [bl_mode_address |-> MSI_EC_ADDR_UNKNOWN, bl_modes |-> <<0, 8>>, max_mode |-> 1, bl_state_address |-> MSI_EC_ADDR_UNSUPP, state_base_value |-> 128, max_state |-> 3] ]

\* ALLOWED_FW_6 and CONF6
CONF6 ==
  [ allowed_fw |-> <<"1542EMS1.102", "1542EMS1.104">>,
    charge_control |-> [address |-> 239, offset_start |-> 138, offset_end |-> 128, range_min |-> 138, range_max |-> 228],
    webcam |-> [address |-> 46, block_address |-> MSI_EC_ADDR_UNSUPP, bit |-> 1],
    fn_win_swap |-> [address |-> 191, bit |-> 4, invert |-> TRUE],
    cooler_boost |-> [address |-> 152, bit |-> 7],
    shift_mode |-> [address |-> 242, modes |-> <<[name |-> "eco", value |-> 194], [name |-> "comfort", value |-> 193], [name |-> "sport", value |-> 192], [name |-> "turbo", value |-> 196]>>],
    super_battery |-> [address |-> 213, mask |-> 15],
    fan_mode |-> [address |-> 244, modes |-> <<[name |-> "auto", value |-> 13], [name |-> "silent", value |-> 29], [name |-> "advanced", value |-> 141]>>],
    cpu |-> [rt_temp_address |-> 104, rt_fan_speed_address |-> 201, rt_fan_speed_base_min |-> 25, rt_fan_speed_base_max |-> 55, bs_fan_speed_address |-> MSI_EC_ADDR_UNSUPP, bs_fan_speed_base_min |-> 0, bs_fan_speed_base_max |-> 15],
    gpu |-> [rt_temp_address |-> 128, rt_fan_speed_address |-> MSI_EC_ADDR_UNKNOWN],
    leds |-> [micmute_led_address |-> MSI_EC_ADDR_UNSUPP, mute_led_address |-> MSI_EC_ADDR_UNSUPP, bit |-> 2],
    kbd_bl |-> [bl_mode_address |-> MSI_EC_ADDR_UNKNOWN, bl_modes |-> <<0, 8>>, max_mode |-> 1, bl_state_address |-> MSI_EC_ADDR_UNSUPP, state_base_value |-> 128, max_state |-> 3] ]

\* ALLOWED_FW_7 and CONF7
CONF7 ==
  [ allowed_fw |-> <<"17FKEMS1.108", "17FKEMS1.109", "17FKEMS1.10A">>,
    charge_control |-> [address |-> 239, offset_start |-> 138, offset_end |-> 128, range_min |-> 138, range_max |-> 228],
    webcam |-> [address |-> 46, block_address |-> MSI_EC_ADDR_UNSUPP, bit |-> 1],
    fn_win_swap |-> [address |-> 191, bit |-> 4, invert |-> FALSE],
    cooler_boost |-> [address |-> 152, bit |-> 7],
    shift_mode |-> [address |-> 242, modes |-> <<[name |-> "eco", value |-> 194], [name |-> "comfort", value |-> 193], [name |-> "sport", value |-> 192], [name |-> "turbo", value |-> 196]>>],
    super_battery |-> [address |-> MSI_EC_ADDR_UNKNOWN, mask |-> 15],
    fan_mode |-> [address |-> 244, modes |-> <<[name |-> "auto", value |-> 13], [name |-> "silent", value |-> 29], [name |-> "advanced", value |-> 141]>>],
    cpu |-> [rt_temp_address |-> 104, rt_fan_speed_address |-> 201, rt_fan_speed_base_min |-> 25, rt_fan_speed_base_max |-> 55, bs_fan_speed_address |-> MSI_EC_ADDR_UNSUPP, bs_fan_speed_base_min |-> 0, bs_fan_speed_base_max |-> 15],
    gpu |-> [rt_temp_address |-> MSI_EC_ADDR_UNKNOWN, rt_fan_speed_address |-> MSI_EC_ADDR_UNKNOWN],
    leds |-> [micmute_led_address |-> MSI_EC_ADDR_UNSUPP, mute_led_address |-> 44, bit |-> 2],
    kbd_bl |-> [bl_mode_address |-> MSI_EC_ADDR_UNKNOWN, bl_modes |-> <<0, 8>>, max_mode |-> 1, bl_state_address |-> 243, state_base_value |-> 128, max_state |-> 3] ]

\* ALLOWED_FW_8 and CONF8
CONF8 ==
  [ allowed_fw |-> <<"14F1EMS1.114", "14F1EMS1.115", "14F1EMS1.116", "14F1EMS1.117", "14F1EMS1.118", "14F1EMS1.119", "14F1EMS1.120">>,
    charge_control |-> [address |-> 215, offset_start |-> 138, offset_end |-> 128, range_min |-> 138, range_max |-> 228],
    webcam |-> [address |-> 46, block_address |-> 47, bit |-> 1],
    fn_win_swap |-> [address |-> 232, bit |-> 4, invert |-> FALSE],
    cooler_boost |-> [address |-> 152, bit |-> 7],
    shift_mode |-> [address |-> 210, modes |-> <<[name |-> "eco", value |-> 194], [name |-> "comfort", value |-> 193], [name |-> "sport", value |-> 192]>>],
    super_battery |-> [address |-> 235, mask |-> 15],
    fan_mode |-> [address |-> 212, modes |-> <<[name |-> "auto", value |-> 13], [name |-> "silent", value |-> 29], [name |-> "advanced", value |-> 141]>>],
    cpu |-> [rt_temp_address |-> 104, rt_fan_speed_address |-> 113, rt_fan_speed_base_min |-> 25, rt_fan_speed_base_max |-> 55, bs_fan_speed_address |-> MSI_EC_ADDR_UNSUPP, bs_fan_speed_base_min |-> 0, bs_fan_speed_base_max |-> 15],
    gpu |-> [rt_temp_address |-> MSI_EC_ADDR_UNKNOWN, rt_fan_speed_address |-> 137],
    leds |-> [micmute_led_address |-> MSI_EC_ADDR_UNSUPP, mute_led_address |-> 45, bit |-> 1],
    kbd_bl |-> [bl_mode_address |-> 44, bl_modes |-> <<0, 128>>, max_mode |-> 1, bl_state_address |-> 211, state_base_value |-> 128, max_state |-> 3] ]

\* ALLOWED_FW_9 and CONF9
CONF9 ==
  [ allowed_fw |-> <<"14JKEMS1.104">>,
    charge_control |-> [address |-> 239, offset_start |-> 138, offset_end |-> 128, range_min |-> 138, range_max |-> 228],
    webcam |-> [address |-> 46, block_address |-> 47, bit |-> 1],
    fn_win_swap |-> [address |-> 191, bit |-> 4, invert |-> FALSE],
    cooler_boost |-> [address |-> 152, bit |-> 7],
    shift_mode |-> [address |-> 242, modes |-> <<[name |-> "eco", value |-> 194], [name |-> "comfort", value |-> 193], [name |-> "sport", value |-> 192]>>],
    super_battery |-> [address |-> MSI_EC_ADDR_UNSUPP, mask |-> 15],
    fan_mode |-> [address |-> 244, modes |-> <<[name |-> "auto", value |-> 13], [name |-> "silent", value |-> 29], [name |-> "advanced", value |-> 141]>>],
    cpu |-> [rt_temp_address |-> 104, rt_fan_speed_address |-> 113, rt_fan_speed_base_min |-> 0, rt_fan_speed_base_max |-> 150, bs_fan_speed_address |-> MSI_EC_ADDR_UNSUPP, bs_fan_speed_base_min |-> 0, bs_fan_speed_base_max |-> 15],
    gpu |-> [rt_temp_address |-> MSI_EC_ADDR_UNSUPP, rt_fan_speed_address |-> MSI_EC_ADDR_UNSUPP],
    leds |-> [micmute_led_address |-> 43, mute_led_address |-> 44, bit |-> 2],
    kbd_bl |-> [bl_mode_address |-> MSI_EC_ADDR_UNSUPP, bl_modes |-> <<0, 8>>, max_mode |-> 1, bl_state_address |-> 243, state_base_value |-> 128, max_state |-> 3] ]

\* ALLOWED_FW_10 and CONF10
CONF10 ==
  [ allowed_fw |-> <<"1582EMS1.107">>,
    charge_control |-> [address |-> 215, offset_start |-> 138, offset_end |-> 128, range_min |-> 138, range_max |-> 228],
    webcam |-> [address |-> 46, block_address |-> 47, bit |-> 1],
    fn_win_swap |-> [address |-> MSI_EC_ADDR_UNSUPP, bit |-> 4, invert |-> FALSE],
    cooler_boost |-> [address |-> 152, bit |-> 7],
    shift_mode |-> [address |-> 210, modes |-> <<[name |-> "eco", value |-> 194], [name |-> "comfort", value |-> 193], [name |-> "sport", value |-> 192], [name |-> "turbo", value |-> 196]>>],
    super_battery |-> [address |-> 229, mask |-> 15],
    fan_mode |-> [address |-> 212, modes |-> <<[name |-> "auto", value |-> 13], [name |-> "silent", value |-> 29], [name |-> "advanced", value |-> 141]>>],
    cpu |-> [rt_temp_address |-> 104, rt_fan_speed_address |-> 113, rt_fan_speed_base_min |-> 25, rt_fan_speed_base_max |-> 55, bs_fan_speed_address |-> MSI_EC_ADDR_UNKNOWN, bs_fan_speed_base_min |-> 0, bs_fan_speed_base_max |-> 15],
    gpu |-> [rt_temp_address |-> 128, rt_fan_speed_address |-> 137],
    leds |-> [micmute_led_address |-> 44, mute_led_address |-> 45, bit |-> 1],
    kbd_bl |-> [bl_mode_address |-> 44, bl_modes |-> <<0, 8>>, max_mode |-> 1, bl_state_address |-> 211, state_base_value |-> 128, max_state |-> 3] ]

\* ALLOWED_FW_11 and CONF11
CONF11 ==
  [ allowed_fw |-> <<"16S6EMS1.111">>,
    charge_control |-> [address |-> 215, offset_start |-> 138, offset_end |-> 128, range_min |-> 138, range_max |-> 228],
    webcam |-> [address |-> 46, block_address |-> MSI_EC_ADDR_UNKNOWN, bit |-> 1],
    fn_win_swap |-> [address |-> 232, bit |-> 4, invert |-> FALSE],
    cooler_boost |-> [address |-> 152, bit |-> 7],
    shift_mode |-> [address |-> 210, modes |-> <<[name |-> "eco", value |-> 194], [name |-> "comfort", value |-> 193], [name |-> "sport", value |-> 192]>>],
    super_battery |-> [address |-> 235, mask |-> 15],
    fan_mode |-> [address |-> 212, modes |-> <<[name |-> "auto", value |-> 13], [name |-> "silent", value |-> 29], [name |-> "advanced", value |-> 77]>>],
    cpu |-> [rt_temp_address |-> 104, rt_fan_speed_address |-> MSI_EC_ADDR_UNSUPP, rt_fan_speed_base_min |-> 0, rt_fan_speed_base_max |-> 0, bs_fan_speed_address |-> MSI_EC_ADDR_UNSUPP, bs_fan_speed_base_min |-> 0, bs_fan_speed_base_max |-> 0],
    gpu |-> [rt_temp_address |-> MSI_EC_ADDR_UNSUPP, rt_fan_speed_address |-> MSI_EC_ADDR_UNSUPP],
    leds |-> [micmute_led_address |-> 44, mute_led_address |-> 45, bit |-> 1],
    kbd_bl |-> [bl_mode_address |-> MSI_EC_ADDR_UNKNOWN, bl_modes |-> <<0, 0>>, max_mode |-> 1, bl_state_address |-> 211, state_base_value |-> 128, max_state |-> 3] ]

\* ALLOWED_FW_12 and CONF12
CONF12 ==
  [ allowed_fw |-> <<"16R6EMS1.104", "16R6EMS1.106", "16R6EMS1.107">>,
    charge_control |-> [address |-> 215, offset_start |-> 138, offset_end |-> 128, range_min |-> 138, range_max |-> 228],
    webcam |-> [address |-> 46, block_address |-> 47, bit |-> 1],
    fn_win_swap |-> [address |-> 232, bit |-> 4, invert |-> FALSE],
    cooler_boost |-> [address |-> 152, bit |-> 7],
    shift_mode |-> [address |-> 210, modes |-> <<[name |-> "eco", value |-> 194], [name |-> "comfort", value |-> 193], [name |-> "sport", value |-> 192], [name |-> "turbo", value |-> 196]>>],
    super_battery |-> [address |-> MSI_EC_ADDR_UNSUPP, mask |-> 15],
    fan_mode |-> [address |-> 212, modes |-> <<[name |-> "auto", value |-> 13], [name |-> "silent", value |-> 29], [name |-> "advanced", value |-> 141]>>],
    cpu |-> [rt_temp_address |-> 104, rt_fan_speed_address |-> 113, rt_fan_speed_base_min |-> 25, rt_fan_speed_base_max |-> 55, bs_fan_speed_address |-> MSI_EC_ADDR_UNSUPP, bs_fan_speed_base_min |-> 0, bs_fan_speed_base_max |-> 15],
    gpu |-> [rt_temp_address |-> MSI_EC_ADDR_UNSUPP, rt_fan_speed_address |-> 137],
    leds |-> [micmute_led_address |-> MSI_EC_ADDR_UNSUPP, mute_led_address |-> 45, bit |-> 1],
    kbd_bl |-> [bl_mode_address |-> MSI_EC_ADDR_UNKNOWN, bl_modes |-> <<0, 8>>, max_mode |-> 1, bl_state_address |-> 211, state_base_value |-> 128, max_state |-> 3] ]

\* ALLOWED_FW_13 and CONF13
CONF13 ==
  [ allowed_fw |-> <<"1594EMS1.109">>,
    charge_control |-> [address |-> 215, offset_start |-> 138, offset_end |-> 128, range_min |-> 138, range_max |-> 228],
    webcam |-> [address |-> 46, block_address |-> 47, bit |-> 1],
    fn_win_swap |-> [address |-> 232, bit |-> 4, invert |-> FALSE],
    cooler_boost |-> [address |-> 152, bit |-> 7],
    shift_mode |-> [address |-> 210, modes |-> <<[name |-> "eco", value |-> 194], [name |-> "comfort", value |-> 193], [name |-> "turbo", value |-> 196]>>],
    super_battery |-> [address |-> MSI_EC_ADDR_UNSUPP, mask |-> 15],
    fan_mode |-> [address |-> 212, modes |-> <<[name |-> "auto", value |-> 13], [name |-> "silent", value |-> 29], [name |-> "advanced", value |-> 141]>>],
    cpu |-> [rt_temp_address |-> 104, rt_fan_speed_address |-> 113, rt_fan_speed_base_min |-> 0, rt_fan_speed_base_max |-> 150, bs_fan_speed_address |-> MSI_EC_ADDR_UNSUPP, bs_fan_speed_base_min |-> 0, bs_fan_speed_base_max |-> 15],
    gpu |-> [rt_temp_address |-> 128, rt_fan_speed_address |-> 137],
    leds |-> [micmute_led_address |-> 44, mute_led_address |-> 45, bit |-> 1],
    kbd_bl |-> [bl_mode_address |-> 44, bl_modes |-> <<0, 8>>, max_mode |-> 1, bl_state_address |-> 211, state_base_value |-> 128, max_state |-> 3] ]

\* ALLOWED_FW_14 and CONF14
CONF14 ==
  [ allowed_fw |-> <<"17L2EMS1.108">>,
    charge_control |-> [address |-> 215, offset_start |-> 138, offset_end |-> 128, range_min |-> 138, range_max |-> 228],
    webcam |-> [address |-> 46, block_address |-> 47, bit |-> 1],
    fn_win_swap |-> [address |-> 232, bit |-> 4, invert |-> TRUE],
    cooler_boost |-> [address |-> 152, bit |-> 7],
    shift_mode |-> [address |-> 210, modes |-> <<[name |-> "eco", value |-> 194], [name |-> "comfort", value |-> 193], [name |-> "sport", value |-> 192], [name |-> "turbo", value |-> 196]>>],
    super_battery |-> [address |-> MSI_EC_ADDR_UNSUPP, mask |-> 15],
    fan_mode |-> [address |-> 212, modes |-> <<[name |-> "auto", value |-> 13], [name |-> "silent", value |-> 29], [name |-> "advanced", value |-> 141]>>],
    cpu |-> [rt_temp_address |-> 104, rt_fan_speed_address |-> 201, rt_fan_speed_base_min |-> 0, rt_fan_speed_base_max |-> 150, bs_fan_speed_address |-> MSI_EC_ADDR_UNSUPP, bs_fan_speed_base_min |-> 0, bs_fan_speed_base_max |-> 15],
    gpu |-> [rt_temp_address |-> 128, rt_fan_speed_address |-> 203],
    leds |-> [micmute_led_address |-> 44, mute_led_address |-> 45, bit |-> 1],
    kbd_bl |-> [bl_mode_address |-> MSI_EC_ADDR_UNSUPP, bl_modes |-> <<0, 8>>, max_mode |-> 1, bl_state_address |-> 211, state_base_value |-> 128, max_state |-> 3] ]

\* ALLOWED_FW_15 and CONF15
CONF15 ==
  [ allowed_fw |-> <<"15CKEMS1.108">>,
    charge_control |-> [address |-> 239, offset_start |-> 138, offset_end |-> 128, range_min |-> 138, range_max |-> 228],
    webcam |-> [address |-> 46, block_address |-> 47, bit |-> 1],
    fn_win_swap |-> [address |-> 191, bit |-> 4, invert |-> FALSE],
    cooler_boost |-> [address |-> 152, bit |-> 7],
    shift_mode |-> [address |-> 242, modes |-> <<[name |-> "eco", value |-> 165], [name |-> "comfort", value |-> 161], [name |-> "turbo", value |-> 160]>>],
    super_battery |-> [address |-> MSI_EC_ADDR_UNKNOWN, mask |-> 15],
    fan_mode |-> [address |-> 244, modes |-> <<[name |-> "auto", value |-> 13], [name |-> "silent", value |-> 29], [name |-> "advanced", value |-> 141]>>],
    cpu |-> [rt_temp_address |-> 104, rt_fan_speed_address |-> 201, rt_fan_speed_base_min |-> 0, rt_fan_speed_base_max |-> 150, bs_fan_speed_address |-> 205, bs_fan_speed_base_min |-> 0, bs_fan_speed_base_max |-> 15],
    gpu |-> [rt_temp_address |-> 128, rt_fan_speed_address |-> 203],
    leds |-> [micmute_led_address |-> 43, mute_led_address |-> 45, bit |-> 2],
    kbd_bl |-> [bl_mode_address |-> MSI_EC_ADDR_UNSUPP, bl_modes |-> <<0, 1>>, max_mode |-> 1, bl_state_address |-> MSI_EC_ADDR_UNSUPP, state_base_value |-> 128, max_state |-> 3] ]

\* ALLOWED_FW_16 and CONF16
CONF16 ==
  [ allowed_fw |-> <<"155LEMS1.105", "155LEMS1.106">>,
    charge_control |-> [address |-> 239, offset_start |-> 138, offset_end |-> 128, range_min |-> 138, range_max |-> 228],
    webcam |-> [address |-> 46, block_address |-> 47, bit |-> 1],
    fn_win_swap |-> [address |-> 191, bit |-> 4, invert |-> FALSE],
    cooler_boost |-> [address |-> 152, bit |-> 7],
    shift_mode |-> [address |-> 242, modes |-> <<[name |-> "eco", value |-> 194], [name |-> "comfort", value |-> 193], [name |-> "sport", value |-> 192]>>],
    super_battery |-> [address |-> MSI_EC_ADDR_UNKNOWN, mask |-> 15],
    fan_mode |-> [address |-> 244, modes |-> <<[name |-> "auto", value |-> 13], [name |-> "silent", value |-> 29], [name |-> "advanced", value |-> 141]>>],
    cpu |-> [rt_temp_address |-> 104, rt_fan_speed_address |-> 113, rt_fan_speed_base_min |-> 25, rt_fan_speed_base_max |-> 55, bs_fan_speed_address |-> MSI_EC_ADDR_UNSUPP, bs_fan_speed_base_min |-> 0, bs_fan_speed_base_max |-> 15],
    gpu |-> [rt_temp_address |-> MSI_EC_ADDR_UNKNOWN, rt_fan_speed_address |-> MSI_EC_ADDR_UNKNOWN],
    leds |-> [micmute_led_address |-> 43, mute_led_address |-> 44, bit |-> 2],
    kbd_bl |-> [bl_mode_address |-> MSI_EC_ADDR_UNKNOWN, bl_modes |-> <<0, 8>>, max_mode |-> 1, bl_state_address |-> 243, state_base_value |-> 128, max_state |-> 3] ]

\* ALLOWED_FW_17 and CONF17
CONF17 ==
  [ allowed_fw |-> <<"15K1IMS1.110">>,
    charge_control |-> [address |-> 215, offset_start |-> 138, offset_end |-> 128, range_min |-> 138, range_max |-> 228],
    webcam |-> [address |-> 46, block_address |-> 47, bit |-> 1],
    fn_win_swap |-> [address |-> 232, bit |-> 4, invert |-> TRUE],
    cooler_boost |-> [address |-> 152, bit |-> 7],
    shift_mode |-> [address |-> 210, modes |-> <<[name |-> "eco", value |-> 194], [name |-> "comfort", value |-> 193], [name |-> "turbo", value |-> 196]>>],
    super_battery |-> [address |-> 235, mask |-> 15],
    fan_mode |-> [address |-> 212, modes |-> <<[name |-> "auto", value |-> 13], [name |-> "silent", value |-> 29], [name |-> "advanced", value |-> 141]>>],
    cpu |-> [rt_temp_address |-> 104, rt_fan_speed_address |-> 113, rt_fan_speed_base_min |-> 0, rt_fan_speed_base_max |-> 150, bs_fan_speed_address |-> MSI_EC_ADDR_UNSUPP, bs_fan_speed_base_min |-> 0, bs_fan_speed_base_max |-> 15],
    gpu |-> [rt_temp_address |-> 128, rt_fan_speed_address |-> 137],
    leds |-> [micmute_led_address |-> 44, mute_led_address |-> 45, bit |-> 1],
    kbd_bl |-> [bl_mode_address |-> 44, bl_modes |-> <<0, 8>>, max_mode |-> 1, bl_state_address |-> 211, state_base_value |-> 128, max_state |-> 3] ]

\* ALLOWED_FW_18 and CONF18
CONF18 ==
  [ allowed_fw |-> <<"15HKEMS1.104">>,
    charge_control |-> [address |-> 239, offset_start |-> 138, offset_end |-> 128, range_min |-> 138, range_max |-> 228],
    webcam |-> [address |-> 46, block_address |-> 47, bit |-> 1],
    fn_win_swap |-> [address |-> 191, bit |-> 4, invert |-> FALSE],
    cooler_boost |-> [address |-> 152, bit |-> 7],
    shift_mode |-> [address |-> 242, modes |-> <<[name |-> "eco", value |-> 194], [name |-> "comfort", value |-> 193], [name |-> "sport", value |-> 192]>>],
    super_battery |-> [address |-> MSI_EC_ADDR_UNSUPP, mask |-> 15],
    fan_mode |-> [address |-> 244, modes |-> <<[name |-> "auto", value |-> 13], [name |-> "silent", value |-> 29], [name |-> "advanced", value |-> 141]>>],
    cpu |-> [rt_temp_address |-> 104, rt_fan_speed_address |-> 113, rt_fan_speed_base_min |-> 0, rt_fan_speed_base_max |-> 150, bs_fan_speed_address |-> MSI_EC_ADDR_UNSUPP, bs_fan_speed_base_min |-> 0, bs_fan_speed_base_max |-> 15],
    gpu |-> [rt_temp_address |-> MSI_EC_ADDR_UNSUPP, rt_fan_speed_address |-> MSI_EC_ADDR_UNSUPP],
    leds |-> [micmute_led_address |-> 43, mute_led_address |-> 44, bit |-> 2],
    kbd_bl |-> [bl_mode_address |-> MSI_EC_ADDR_UNSUPP, bl_modes |-> <<0, 8>>, max_mode |-> 1, bl_state_address |-> 243, state_base_value |-> 128, max_state |-> 3] ]

\* ALLOWED_FW_19 and CONF19
CONF19 ==
  [ allowed_fw |-> <<"1543EMS1.113">>,
    charge_control |-> [address |-> 215, offset_start |-> 138, offset_end |-> 128, range_min |-> 138, range_max |-> 228],
    webcam |-> [address |-> 46, block_address |-> MSI_EC_ADDR_UNSUPP, bit |-> 1],
    fn_win_swap |-> [address |-> 232, bit |-> 4, invert |-> FALSE],
    cooler_boost |-> [address |-> 152, bit |-> 7],
    shift_mode |-> [address |-> 210, modes |-> <<[name |-> "eco", value |-> 194], [name |-> "comfort", value |-> 193], [name |-> "sport", value |-> 192], [name |-> "turbo", value |-> 196]>>],
    super_battery |-> [address |-> 235, mask |-> 15],
    fan_mode |-> [address |-> 212, modes |-> <<[name |-> "auto", value |-> 13], [name |-> "silent", value |-> 29], [name |-> "advanced", value |-> 141]>>],
    cpu |-> [rt_temp_address |-> 104, rt_fan_speed_address |-> 201, rt_fan_speed_base_min |-> 25, rt_fan_speed_base_max |-> 150, bs_fan_speed_address |-> MSI_EC_ADDR_UNKNOWN, bs_fan_speed_base_min |-> 0, bs_fan_speed_base_max |-> 15],
    gpu |-> [rt_temp_address |-> 128, rt_fan_speed_address |-> 137],
    leds |-> [micmute_led_address |-> MSI_EC_ADDR_UNKNOWN, mute_led_address |-> MSI_EC_ADDR_UNKNOWN, bit |-> 1],
    kbd_bl |-> [bl_mode_address |-> MSI_EC_ADDR_UNKNOWN, bl_modes |-> <<0, 0>>, max_mode |-> 1, bl_state_address |-> 211, state_base_value |-> 128, max_state |-> 3] ]

\* ALLOWED_FW_20 and CONF20
CONF20 ==
  [ allowed_fw |-> <<"1581EMS1.107">>,
    charge_control |-> [address |-> 215, offset_start |-> 138, offset_end |-> 128, range_min |-> 138, range_max |-> 228],
    webcam |-> [address |-> 46, block_address |-> 47, bit |-> 1],
    fn_win_swap |-> [address |-> 232, bit |-> 4, invert |-> TRUE],
    cooler_boost |-> [address |-> 152, bit |-> 7],
    shift_mode |-> [address |-> 210, modes |-> <<[name |-> "eco", value |-> 194], [name |-> "comfort", value |-> 193], [name |-> "sport", value |-> 192], [name |-> "turbo", value |-> 196]>>],
    super_battery |-> [address |-> 235, mask |-> 15],
    fan_mode |-> [address |-> 212, modes |-> <<[name |-> "auto", value |-> 13], [name |-> "silent", value |-> 29], [name |-> "advanced", value |-> 141]>>],
    cpu |-> [rt_temp_address |-> 104, rt_fan_speed_address |-> 201, rt_fan_speed_base_min |-> 0, rt_fan_speed_base_max |-> 150, bs_fan_speed_address |-> MSI_EC_ADDR_UNSUPP, bs_fan_speed_base_min |-> 0, bs_fan_speed_base_max |-> 15],
    gpu |-> [rt_temp_address |-> 128, rt_fan_speed_address |-> 203],
    leds |-> [micmute_led_address |-> 44, mute_led_address |-> 45, bit |-> 1],
    kbd_bl |-> [bl_mode_address |-> MSI_EC_ADDR_UNSUPP, bl_modes |-> <<0, 8>>, max_mode |-> 1, bl_state_address |-> 211, state_base_value |-> 128, max_state |-> 3] ]

\* ALLOWED_FW_21 and CONF21
CONF21 ==
  [ allowed_fw |-> <<"16R3EMS1.100", "16R3EMS1.102", "16R3EMS1.104", "16R4EMS2.102">>,
    charge_control |-> [address |-> 239, offset_start |-> 138, offset_end |-> 128, range_min |-> 188, range_max |-> 228],
    webcam |-> [address |-> 46, block_address |-> 47, bit |-> 1],
    fn_win_swap |-> [address |-> 191, bit |-> 4, invert |-> TRUE],
    cooler_boost |-> [address |-> 152, bit |-> 7],
    shift_mode |-> [address |-> 242, modes |-> <<[name |-> "eco", value |-> 194], [name |-> "comfort", value |-> 193], [name |-> "sport", value |-> 192], [name |-> "turbo", value |-> 196]>>],
    super_battery |-> [address |-> MSI_EC_ADDR_UNSUPP, mask |-> 15],
    fan_mode |-> [address |-> 244, modes |-> <<[name |-> "auto", value |-> 13], [name |-> "basic", value |-> 77], [name |-> "advanced", value |-> 141]>>],
    cpu |-> [rt_temp_address |-> 104, rt_fan_speed_address |-> 113, rt_fan_speed_base_min |-> 0, rt_fan_speed_base_max |-> 100, bs_fan_speed_address |-> MSI_EC_ADDR_UNKNOWN, bs_fan_speed_base_min |-> 0, bs_fan_speed_base_max |-> 15],
    gpu |-> [rt_temp_address |-> 128, rt_fan_speed_address |-> 137],
    leds |-> [micmute_led_address |-> MSI_EC_ADDR_UNSUPP, mute_led_address |-> MSI_EC_ADDR_UNSUPP, bit |-> 1],
    kbd_bl |-> [bl_mode_address |-> MSI_EC_ADDR_UNSUPP, bl_modes |-> <<0, 8>>, max_mode |-> 1, bl_state_address |-> 243, state_base_value |-> 128, max_state |-> 3] ]

\* ALLOWED_FW_22 and CONF22
CONF22 ==
  [ allowed_fw |-> <<"17LLEMS1.106">>,
    charge_control |-> [address |-> 239, offset_start |-> 138, offset_end |-> 128, range_min |-> 138, range_max |-> 228],
    webcam |-> [address |-> 46, block_address |-> 47, bit |-> 1],
    fn_win_swap |-> [address |-> 191, bit |-> 4, invert |-> TRUE],
    cooler_boost |-> [address |-> 152, bit |-> 7],
    shift_mode |-> [address |-> 242, modes |-> <<[name |-> "eco", value |-> 194], [name |-> "comfort", value |-> 193], [name |-> "sport", value |-> 193], [name |-> "turbo", value |-> 196]>>],
    super_battery |-> [address |-> MSI_EC_ADDR_UNKNOWN, mask |-> 15],
    fan_mode |-> [address |-> 244, modes |-> <<[name |-> "auto", value |-> 13], [name |-> "silent", value |-> 29], [name |-> "advanced", value |-> 141]>>],
    cpu |-> [rt_temp_address |-> 104, rt_fan_speed_address |-> 113, rt_fan_speed_base_min |-> 25, rt_fan_speed_base_max |-> 55, bs_fan_speed_address |-> MSI_EC_ADDR_UNKNOWN, bs_fan_speed_base_min |-> 0, bs_fan_speed_base_max |-> 15],
    gpu |-> [rt_temp_address |-> 128, rt_fan_speed_address |-> 137],
    leds |-> [micmute_led_address |-> 43, mute_led_address |-> 44, bit |-> 2],
    kbd_bl |-> [bl_mode_address |-> MSI_EC_ADDR_UNKNOWN, bl_modes |-> <<0, 8>>, max_mode |-> 1, bl_state_address |-> MSI_EC_ADDR_UNSUPP, state_base_value |-> 128, max_state |-> 3] ]

\* ALLOWED_FW_23 and CONF23
CONF23 ==
  [ allowed_fw |-> <<"16WKEMS1.105">>,
    charge_control |-> [address |-> 239, offset_start |-> 138, offset_end |-> 128, range_min |-> 138, range_max |-> 228],
    webcam |-> [address |-> 46, block_address |-> MSI_EC_ADDR_UNSUPP, bit |-> 1],
    fn_win_swap |-> [address |-> 191, bit |-> 4, invert |-> TRUE],
    cooler_boost |-> [address |-> 152, bit |-> 7],
    shift_mode |-> [address |-> 242, modes |-> <<[name |-> "comfort", value |-> 193], [name |-> "eco", value |-> 194], [name |-> "turbo", value |-> 196]>>],
    super_battery |-> [address |-> MSI_EC_ADDR_UNSUPP, mask |-> 0],
    fan_mode |-> [address |-> 244, modes |-> <<[name |-> "auto", value |-> 13], [name |-> "silent", value |-> 29], [name |-> "advanced", value |-> 141]>>],
    cpu |-> [rt_temp_address |-> 104, rt_fan_speed_address |-> 113, rt_fan_speed_base_min |-> 0, rt_fan_speed_base_max |-> 150, bs_fan_speed_address |-> MSI_EC_ADDR_UNSUPP, bs_fan_speed_base_min |-> 0, bs_fan_speed_base_max |-> 15],
    gpu |-> [rt_temp_address |-> 128, rt_fan_speed_address |-> 137],
    leds |-> [micmute_led_address |-> MSI_EC_ADDR_UNSUPP, mute_led_address |-> MSI_EC_ADDR_UNSUPP, bit |-> 0],
    kbd_bl |-> [bl_mode_address |-> MSI_EC_ADDR_UNSUPP, bl_modes |-> <<0, 8>>, max_mode |-> 1, bl_state_address |-> 243, state_base_value |-> 128, max_state |-> 3] ]

\* ALLOWED_FW_24 and CONF24
CONF24 ==
  [ allowed_fw |-> <<"14D1EMS1.103">>,
    charge_control |-> [address |-> 239, offset_start |-> 138, offset_end |-> 128, range_min |-> 138, range_max |-> 228],
    webcam |-> [address |-> 46, block_address |-> 47, bit |-> 1],
    fn_win_swap |-> [address |-> 191, bit |-> 4, invert |-> TRUE],
    cooler_boost |-> [address |-> 152, bit |-> 7],
    shift_mode |-> [address |-> 242, modes |-> <<[name |-> "eco", value |-> 194], [name |-> "comfort", value |-> 193], [name |-> "sport", value |-> 192]>>],
    super_battery |-> [address |-> MSI_EC_ADDR_UNSUPP, mask |-> 15],
    fan_mode |-> [address |-> 244, modes |-> <<[name |-> "auto", value |-> 13], [name |-> "silent", value |-> 29], [name |-> "advanced", value |-> 141]>>],
    cpu |-> [rt_temp_address |-> 104, rt_fan_speed_address |-> 113, rt_fan_speed_base_min |-> 0, rt_fan_speed_base_max |-> 150, bs_fan_speed_address |-> MSI_EC_ADDR_UNSUPP, bs_fan_speed_base_min |-> 0, bs_fan_speed_base_max |-> 15],
    gpu |-> [rt_temp_address |-> MSI_EC_ADDR_UNSUPP, rt_fan_speed_address |-> MSI_EC_ADDR_UNSUPP],
    leds |-> [micmute_led_address |-> 43, mute_led_address |-> 44, bit |-> 2],
    kbd_bl |-> [bl_mode_address |-> MSI_EC_ADDR_UNSUPP, bl_modes |-> <<0, 8>>, max_mode |-> 1, bl_state_address |-> 243, state_base_value |-> 128, max_state |-> 3] ]

\* CONF25 with an identifier of ALLOWED_FW_8 repeated in its allow-list
CONF25_lists_fw_of_CONF8 ==
  [ allowed_fw |-> <<"14F1EMS1.114", "14F1EMS1.209", "14F1EMS1.211">>,
    charge_control |-> [address |-> 215, offset_start |-> 138, offset_end |-> 128, range_min |-> 138, range_max |-> 228],
    webcam |-> [address |-> 46, block_address |-> 47, bit |-> 1],
    fn_win_swap |-> [address |-> 232, bit |-> 4, invert |-> FALSE],
    cooler_boost |-> [address |-> 152, bit |-> 7],
    shift_mode |-> [address |-> 210, modes |-> <<[name |-> "eco", value |-> 194], [name |-> "comfort", value |-> 193], [name |-> "turbo", value |-> 196]>>],
    super_battery |-> [address |-> 235, mask |-> 15],
    fan_mode |-> [address |-> 212, modes |-> <<[name |-> "auto", value |-> 13], [name |-> "silent", value |-> 29], [name |-> "advanced", value |-> 141]>>],
    cpu |-> [rt_temp_address |-> 104, rt_fan_speed_address |-> 113, rt_fan_speed_base_min |-> 25, rt_fan_speed_base_max |-> 55, bs_fan_speed_address |-> MSI_EC_ADDR_UNSUPP, bs_fan_speed_base_min |-> 0, bs_fan_speed_base_max |-> 15],
    gpu |-> [rt_temp_address |-> MSI_EC_ADDR_UNKNOWN, rt_fan_speed_address |-> 137],
    leds |-> [micmute_led_address |-> 44, mute_led_address |-> 45, bit |-> 1],
    kbd_bl |-> [bl_mode_address |-> 44, bl_modes |-> <<0, 8>>, max_mode |-> 1, bl_state_address |-> 211, state_base_value |-> 128, max_state |-> 3] ]

\* ALLOWED_FW_25 and CONF25
CONF25 ==
  [ allowed_fw |-> <<"14F1EMS1.209", "14F1EMS1.211">>,
    charge_control |-> [address |-> 215, offset_start |-> 138, offset_end |-> 128, range_min |-> 138, range_max |-> 228],
    webcam |-> [address |-> 46, block_address |-> 47, bit |-> 1],
    fn_win_swap |-> [address |-> 232, bit |-> 4, invert |-> FALSE],
    cooler_boost |-> [address |-> 152, bit |-> 7],
    shift_mode |-> [address |-> 210, modes |-> <<[name |-> "eco", value |-> 194], [name |-> "comfort", value |-> 193], [name |-> "turbo", value |-> 196]>>],
    super_battery |-> [address |-> 235, mask |-> 15],
    fan_mode |-> [address |-> 212, modes |-> <<[name |-> "auto", value |-> 13], [name |-> "silent", value |-> 29], [name |-> "advanced", value |-> 141]>>],
    cpu |-> [rt_temp_address |-> 104, rt_fan_speed_address |-> 113, rt_fan_speed_base_min |-> 25, rt_fan_speed_base_max |-> 55, bs_fan_speed_address |-> MSI_EC_ADDR_UNSUPP, bs_fan_speed_base_min |-> 0, bs_fan_speed_base_max |-> 15],
    gpu |-> [rt_temp_address |-> MSI_EC_ADDR_UNKNOWN, rt_fan_speed_address |-> 137],
    leds |-> [micmute_led_address |-> 44, mute_led_address |-> 45, bit |-> 1],
    kbd_bl |-> [bl_mode_address |-> 44, bl_modes |-> <<0, 8>>, max_mode |-> 1, bl_state_address |-> 211, state_base_value |-> 128, max_state |-> 3] ]

\* ALLOWED_FW_26 and CONF26
CONF26 ==
  [ allowed_fw |-> <<"14DLEMS1.105">>,
    charge_control |-> [address |-> 239, offset_start |-> 138, offset_end |-> 128, range_min |-> 188, range_max |-> 228],
    webcam |-> [address |-> 46, block_address |-> 47, bit |-> 1],
    fn_win_swap |-> [address |-> 191, bit |-> 4, invert |-> FALSE],
    cooler_boost |-> [address |-> 152, bit |-> 7],
    shift_mode |-> [address |-> 242, modes |-> <<[name |-> "eco", value |-> 194], [name |-> "comfort", value |-> 193], [name |-> "sport", value |-> 192]>>],
    super_battery |-> [address |-> MSI_EC_ADDR_UNSUPP, mask |-> 15],
    fan_mode |-> [address |-> 212, modes |-> <<[name |-> "auto", value |-> 13], [name |-> "silent", value |-> 29], [name |-> "advanced", value |-> 141]>>],
    cpu |-> [rt_temp_address |-> 104, rt_fan_speed_address |-> 205, rt_fan_speed_base_min |-> 25, rt_fan_speed_base_max |-> 55, bs_fan_speed_address |-> MSI_EC_ADDR_UNSUPP, bs_fan_speed_base_min |-> 0, bs_fan_speed_base_max |-> 15],
    gpu |-> [rt_temp_address |-> MSI_EC_ADDR_UNSUPP, rt_fan_speed_address |-> MSI_EC_ADDR_UNSUPP],
    leds |-> [micmute_led_address |-> 43, mute_led_address |-> 44, bit |-> 2],
    kbd_bl |-> [bl_mode_address |-> MSI_EC_ADDR_UNSUPP, bl_modes |-> <<0, 8>>, max_mode |-> 1, bl_state_address |-> 243, state_base_value |-> 128, max_state |-> 3] ]

\* ALLOWED_FW_27 and CONF27
CONF27 ==
  [ allowed_fw |-> <<"17S2IMS1.113">>,
    charge_control |-> [address |-> 215, offset_start |-> 138, offset_end |-> 128, range_min |-> 138, range_max |-> 228],
    webcam |-> [address |-> 46, block_address |-> 47, bit |-> 1],
    fn_win_swap |-> [address |-> 232, bit |-> 4, invert |-> TRUE],
    cooler_boost |-> [address |-> 152, bit |-> 7],
    shift_mode |-> [address |-> 210, modes |-> <<[name |-> "eco", value |-> 194], [name |-> "comfort", value |-> 193], [name |-> "sport", value |-> 192], [name |-> "turbo", value |-> 196]>>],
    super_battery |-> [address |-> 235, mask |-> 15],
    fan_mode |-> [address |-> 212, modes |-> <<[name |-> "auto", value |-> 13], [name |-> "silent", value |-> 29], [name |-> "advanced", value |-> 141]>>],
    cpu |-> [rt_temp_address |-> 104, rt_fan_speed_address |-> 113, rt_fan_speed_base_min |-> 0, rt_fan_speed_base_max |-> 150, bs_fan_speed_address |-> MSI_EC_ADDR_UNKNOWN, bs_fan_speed_base_min |-> 0, bs_fan_speed_base_max |-> 15],
    gpu |-> [rt_temp_address |-> 128, rt_fan_speed_address |-> 137],
    leds |-> [micmute_led_address |-> 44, mute_led_address |-> 45, bit |-> 1],
    kbd_bl |-> [bl_mode_address |-> MSI_EC_ADDR_UNSUPP, bl_modes |-> <<0, 8>>, max_mode |-> 1, bl_state_address |-> MSI_EC_ADDR_UNSUPP, state_base_value |-> 128, max_state |-> 3] ]

\* ALLOWED_FW_28 and CONF28
CONF28 ==
  [ allowed_fw |-> <<"1822EMS1.105", "1822EMS1.109", "1822EMS1.111", "1822EMS1.112", "1822EMS1.114">>,
    charge_control |-> [address |-> 215, offset_start |-> 138, offset_end |-> 128, range_min |-> 138, range_max |-> 228],
    webcam |-> [address |-> MSI_EC_ADDR_UNSUPP, block_address |-> MSI_EC_ADDR_UNSUPP, bit |-> 1],
    fn_win_swap |-> [address |-> 232, bit |-> 4, invert |-> FALSE],
    cooler_boost |-> [address |-> 152, bit |-> 7],
    shift_mode |-> [address |-> 210, modes |-> <<[name |-> "eco", value |-> 194], [name |-> "comfort", value |-> 193], [name |-> "turbo", value |-> 196]>>],
    super_battery |-> [address |-> 235, mask |-> 15],
    fan_mode |-> [address |-> 212, modes |-> <<[name |-> "auto", value |-> 13], [name |-> "silent", value |-> 29], [name |-> "advanced", value |-> 141]>>],
    cpu |-> [rt_temp_address |-> 104, rt_fan_speed_address |-> 113, rt_fan_speed_base_min |-> 0, rt_fan_speed_base_max |-> 150, bs_fan_speed_address |-> MSI_EC_ADDR_UNSUPP, bs_fan_speed_base_min |-> 0, bs_fan_speed_base_max |-> 15],
    gpu |-> [rt_temp_address |-> 128, rt_fan_speed_address |-> 137],
    leds |-> [micmute_led_address |-> 44, mute_led_address |-> 45, bit |-> 1],
    kbd_bl |-> [bl_mode_address |-> MSI_EC_ADDR_UNSUPP, bl_modes |-> <<0, 8>>, max_mode |-> 1, bl_state_address |-> 211, state_base_value |-> 129, max_state |-> 3] ]

\* ALLOWED_FW_29 and CONF29
CONF29 ==
  [ allowed_fw |-> <<"16V5EMS1.107">>,
    charge_control |-> [address |-> 215, offset_start |-> 138, offset_end |-> 128, range_min |-> 138, range_max |-> 228],
    webcam |-> [address |-> 46, block_address |-> 47, bit |-> 1],
    fn_win_swap |-> [address |-> 232, bit |-> 4, invert |-> TRUE],
    cooler_boost |-> [address |-> 152, bit |-> 7],
    shift_mode |-> [address |-> 210, modes |-> <<[name |-> "eco", value |-> 194], [name |-> "comfort", value |-> 193], [name |-> "turbo", value |-> 196]>>],
    super_battery |-> [address |-> 235, mask |-> 15],
    fan_mode |-> [address |-> 212, modes |-> <<[name |-> "auto", value |-> 13], [name |-> "silent", value |-> 29], [name |-> "advanced", value |-> 141]>>],
    cpu |-> [rt_temp_address |-> 104, rt_fan_speed_address |-> MSI_EC_ADDR_UNKNOWN, rt_fan_speed_base_min |-> 0, rt_fan_speed_base_max |-> 61, bs_fan_speed_address |-> MSI_EC_ADDR_UNKNOWN, bs_fan_speed_base_min |-> 0, bs_fan_speed_base_max |-> 15],
    gpu |-> [rt_temp_address |-> 128, rt_fan_speed_address |-> 203],
    leds |-> [micmute_led_address |-> MSI_EC_ADDR_UNSUPP, mute_led_address |-> MSI_EC_ADDR_UNSUPP, bit |-> 1],
    kbd_bl |-> [bl_mode_address |-> MSI_EC_ADDR_UNSUPP, bl_modes |-> <<0, 0>>, max_mode |-> 1, bl_state_address |-> MSI_EC_ADDR_UNSUPP, state_base_value |-> 128, max_state |-> 3] ]

\* ALLOWED_FW_30 and CONF30
CONF30 ==
  [ allowed_fw |-> <<"17Q2IMS1.10D">>,
    charge_control |-> [address |-> 215, offset_start |-> 138, offset_end |-> 128, range_min |-> 138, range_max |-> 228],
    webcam |-> [address |-> 46, block_address |-> MSI_EC_ADDR_UNSUPP, bit |-> 1],
    fn_win_swap |-> [address |-> 232, bit |-> 4, invert |-> FALSE],
    cooler_boost |-> [address |-> 152, bit |-> 7],
    shift_mode |-> [address |-> 210, modes |-> <<[name |-> "eco", value |-> 194], [name |-> "comfort", value |-> 193], [name |-> "sport", value |-> 192], [name |-> "turbo", value |-> 196]>>],
    super_battery |-> [address |-> MSI_EC_ADDR_UNSUPP, mask |-> 15],
    fan_mode |-> [address |-> 212, modes |-> <<[name |-> "auto", value |-> 13], [name |-> "silent", value |-> 29], [name |-> "advanced", value |-> 141]>>],
    cpu |-> [rt_temp_address |-> MSI_EC_ADDR_UNKNOWN, rt_fan_speed_address |-> MSI_EC_ADDR_UNKNOWN, rt_fan_speed_base_min |-> 0, rt_fan_speed_base_max |-> 150, bs_fan_speed_address |-> MSI_EC_ADDR_UNKNOWN, bs_fan_speed_base_min |-> 0, bs_fan_speed_base_max |-> 15],
    gpu |-> [rt_temp_address |-> MSI_EC_ADDR_UNKNOWN, rt_fan_speed_address |-> MSI_EC_ADDR_UNKNOWN],
    leds |-> [micmute_led_address |-> MSI_EC_ADDR_UNKNOWN, mute_led_address |-> MSI_EC_ADDR_UNKNOWN, bit |-> 1],
    kbd_bl |-> [bl_mode_address |-> MSI_EC_ADDR_UNKNOWN, bl_modes |-> <<0, 0>>, max_mode |-> 1, bl_state_address |-> 211, state_base_value |-> 128, max_state |-> 3] ]

\* ALLOWED_FW_31 and CONF31
CONF31 ==
  [ allowed_fw |-> <<"16Q4EMS1.110">>,
    charge_control |-> [address |-> 239, offset_start |-> 138, offset_end |-> 128, range_min |-> 138, range_max |-> 228],
    webcam |-> [address |-> 46, block_address |-> MSI_EC_ADDR_UNSUPP, bit |-> 1],
    fn_win_swap |-> [address |-> 191, bit |-> 4, invert |-> FALSE],
    cooler_boost |-> [address |-> 152, bit |-> 7],
    shift_mode |-> [address |-> 242, modes |-> <<[name |-> "eco", value |-> 194], [name |-> "comfort", value |-> 193], [name |-> "turbo", value |-> 196], [name |-> "sport", value |-> 192]>>],
    super_battery |-> [address |-> MSI_EC_ADDR_UNSUPP, mask |-> 0],
    fan_mode |-> [address |-> 244, modes |-> <<[name |-> "basic", value |-> 76], [name |-> "auto", value |-> 12], [name |-> "advanced", value |-> 140]>>],
    cpu |-> [rt_temp_address |-> 104, rt_fan_speed_address |-> 113, rt_fan_speed_base_min |-> 0, rt_fan_speed_base_max |-> 150, bs_fan_speed_address |-> MSI_EC_ADDR_UNSUPP, bs_fan_speed_base_min |-> 0, bs_fan_speed_base_max |-> 15],
    gpu |-> [rt_temp_address |-> 128, rt_fan_speed_address |-> MSI_EC_ADDR_UNKNOWN],
    leds |-> [micmute_led_address |-> MSI_EC_ADDR_UNSUPP, mute_led_address |-> MSI_EC_ADDR_UNSUPP, bit |-> 1],
    kbd_bl |-> [bl_mode_address |-> MSI_EC_ADDR_UNSUPP, bl_modes |-> <<0, 8>>, max_mode |-> 1, bl_state_address |-> MSI_EC_ADDR_UNSUPP, state_base_value |-> 129, max_state |-> 3] ]

\* ALLOWED_FW_32 and CONF32
CONF32 ==
  [ allowed_fw |-> <<"158PIMS1.207", "158PIMS1.112">>,
    charge_control |-> [address |-> 215, offset_start |-> 138, offset_end |-> 128, range_min |-> 138, range_max |-> 228],
    webcam |-> [address |-> MSI_EC_ADDR_UNSUPP, block_address |-> MSI_EC_ADDR_UNSUPP, bit |-> 1],
    fn_win_swap |-> [address |-> 232, bit |-> 4, invert |-> FALSE],
    cooler_boost |-> [address |-> 152, bit |-> 7],
    shift_mode |-> [address |-> 210, modes |-> <<[name |-> "eco", value |-> 194], [name |-> "comfort", value |-> 193], [name |-> "turbo", value |-> 196]>>],
    super_battery |-> [address |-> MSI_EC_ADDR_UNKNOWN, mask |-> 15],
    fan_mode |-> [address |-> 212, modes |-> <<[name |-> "auto", value |-> 13], [name |-> "silent", value |-> 29], [name |-> "advanced", value |-> 141]>>],
    cpu |-> [rt_temp_address |-> 104, rt_fan_speed_address |-> MSI_EC_ADDR_UNKNOWN, rt_fan_speed_base_min |-> 0, rt_fan_speed_base_max |-> 150, bs_fan_speed_address |-> MSI_EC_ADDR_UNSUPP, bs_fan_speed_base_min |-> 0, bs_fan_speed_base_max |-> 15],
    gpu |-> [rt_temp_address |-> MSI_EC_ADDR_UNSUPP, rt_fan_speed_address |-> MSI_EC_ADDR_UNKNOWN],
    leds |-> [micmute_led_address |-> 44, mute_led_address |-> 45, bit |-> 1],
    kbd_bl |-> [bl_mode_address |-> MSI_EC_ADDR_UNSUPP, bl_modes |-> <<0, 0>>, max_mode |-> 1, bl_state_address |-> 211, state_base_value |-> 128, max_state |-> 3] ]

\* ALLOWED_FW_33 and CONF33
CONF33 ==
  [ allowed_fw |-> <<"17N1EMS1.109">>,
    charge_control |-> [address |-> 215, offset_start |-> 138, offset_end |-> 128, range_min |-> 138, range_max |-> 228],
    webcam |-> [address |-> 46, block_address |-> MSI_EC_ADDR_UNSUPP, bit |-> 1],
    fn_win_swap |-> [address |-> 232, bit |-> 4, invert |-> TRUE],
    cooler_boost |-> [address |-> 152, bit |-> 7],
    shift_mode |-> [address |-> 210, modes |-> <<[name |-> "eco", value |-> 194], [name |-> "comfort", value |-> 193], [name |-> "sport", value |-> 192]>>],
    super_battery |-> [address |-> 235, mask |-> 15],
    fan_mode |-> [address |-> 212, modes |-> <<[name |-> "auto", value |-> 13], [name |-> "silent", value |-> 29], [name |-> "advanced", value |-> 77]>>],
    cpu |-> [rt_temp_address |-> 104, rt_fan_speed_address |-> 113, rt_fan_speed_base_min |-> 0, rt_fan_speed_base_max |-> 150, bs_fan_speed_address |-> MSI_EC_ADDR_UNSUPP, bs_fan_speed_base_min |-> 0, bs_fan_speed_base_max |-> 150],
    gpu |-> [rt_temp_address |-> 128, rt_fan_speed_address |-> 137],
    leds |-> [micmute_led_address |-> 44, mute_led_address |-> 45, bit |-> 1],
    kbd_bl |-> [bl_mode_address |-> MSI_EC_ADDR_UNSUPP, bl_modes |-> <<0, 8>>, max_mode |-> 1, bl_state_address |-> MSI_EC_ADDR_UNSUPP, state_base_value |-> 128, max_state |-> 3] ]

\* ALLOWED_FW_34 and CONF34
CONF34 ==
  [ allowed_fw |-> <<"14C6EMS1.109">>,
    charge_control |-> [address |-> 215, offset_start |-> 138, offset_end |-> 128, range_min |-> 138, range_max |-> 228],
    webcam |-> [address |-> 46, block_address |-> 47, bit |-> 1],
    fn_win_swap |-> [address |-> 232, bit |-> 4, invert |-> FALSE],
    cooler_boost |-> [address |-> 152, bit |-> 7],
    shift_mode |-> [address |-> 210, modes |-> <<[name |-> "eco", value |-> 194], [name |-> "comfort", value |-> 193], [name |-> "sport", value |-> 192]>>],
    super_battery |-> [address |-> 235, mask |-> 15],
    fan_mode |-> [address |-> 212, modes |-> <<[name |-> "auto", value |-> 13], [name |-> "silent", value |-> 29], [name |-> "advanced", value |-> 77]>>],
    cpu |-> [rt_temp_address |-> 104, rt_fan_speed_address |-> MSI_EC_ADDR_UNKNOWN, rt_fan_speed_base_min |-> 0, rt_fan_speed_base_max |-> 0, bs_fan_speed_address |-> MSI_EC_ADDR_UNKNOWN, bs_fan_speed_base_min |-> 0, bs_fan_speed_base_max |-> 0],
    gpu |-> [rt_temp_address |-> MSI_EC_ADDR_UNKNOWN, rt_fan_speed_address |-> MSI_EC_ADDR_UNKNOWN],
    leds |-> [micmute_led_address |-> 44, mute_led_address |-> 45, bit |-> 1],
    kbd_bl |-> [bl_mode_address |-> 44, bl_modes |-> <<0, 8>>, max_mode |-> 1, bl_state_address |-> 211, state_base_value |-> 128, max_state |-> 3] ]

\* ALLOWED_FW_35 and CONF35
CONF35 ==
  [ allowed_fw |-> <<"15M2IMS1.113">>,
    charge_control |-> [address |-> 215, offset_start |-> 138, offset_end |-> 128, range_min |-> 138, range_max |-> 228],
    webcam |-> [address |-> 46, block_address |-> MSI_EC_ADDR_UNSUPP, bit |-> 1],
    fn_win_swap |-> [address |-> 232, bit |-> 4, invert |-> TRUE],
    cooler_boost |-> [address |-> 152, bit |-> 7],
    shift_mode |-> [address |-> 210, modes |-> <<[name |-> "comfort", value |-> 193], [name |-> "eco", value |-> 194], [name |-> "turbo", value |-> 196]>>],
    super_battery |-> [address |-> 235, mask |-> 15],
    fan_mode |-> [address |-> 212, modes |-> <<[name |-> "auto", value |-> 13], [name |-> "silent", value |-> 29], [name |-> "advanced", value |-> 141]>>],
    cpu |-> [rt_temp_address |-> 104, rt_fan_speed_address |-> 113, rt_fan_speed_base_min |-> 0, rt_fan_speed_base_max |-> 150, bs_fan_speed_address |-> MSI_EC_ADDR_UNSUPP, bs_fan_speed_base_min |-> 0, bs_fan_speed_base_max |-> 15],
    gpu |-> [rt_temp_address |-> 128, rt_fan_speed_address |-> 137],
    leds |-> [micmute_led_address |-> 44, mute_led_address |-> 45, bit |-> 1],
    kbd_bl |-> [bl_mode_address |-> MSI_EC_ADDR_UNSUPP, bl_modes |-> <<0, 8>>, max_mode |-> 1, bl_state_address |-> MSI_EC_ADDR_UNSUPP, state_base_value |-> 128, max_state |-> 3] ]

\* ALLOWED_FW_36 and CONF36
CONF36 ==
  [ allowed_fw |-> <<"1585EMS1.115">>,
    charge_control |-> [address |-> 215, offset_start |-> 138, offset_end |-> 128, range_min |-> 138, range_max |-> 228],
    webcam |-> [address |-> 46, block_address |-> MSI_EC_ADDR_UNSUPP, bit |-> 1],
    fn_win_swap |-> [address |-> 232, bit |-> 4, invert |-> TRUE],
    cooler_boost |-> [address |-> 152, bit |-> 7],
    shift_mode |-> [address |-> 210, modes |-> <<[name |-> "eco", value |-> 194], [name |-> "comfort", value |-> 193], [name |-> "sport", value |-> 196]>>],
    super_battery |-> [address |-> 235, mask |-> 15],
    fan_mode |-> [address |-> 212, modes |-> <<[name |-> "auto", value |-> 13], [name |-> "silent", value |-> 29], [name |-> "advanced", value |-> 141]>>],
    cpu |-> [rt_temp_address |-> 104, rt_fan_speed_address |-> 201, rt_fan_speed_base_min |-> 0, rt_fan_speed_base_max |-> 150, bs_fan_speed_address |-> MSI_EC_ADDR_UNSUPP, bs_fan_speed_base_min |-> 0, bs_fan_speed_base_max |-> 150],
    gpu |-> [rt_temp_address |-> 128, rt_fan_speed_address |-> 203],
    leds |-> [micmute_led_address |-> 44, mute_led_address |-> 45, bit |-> 1],
    kbd_bl |-> [bl_mode_address |-> MSI_EC_ADDR_UNSUPP, bl_modes |-> <<0, 8>>, max_mode |-> 1, bl_state_address |-> MSI_EC_ADDR_UNSUPP, state_base_value |-> 128, max_state |-> 3] ]

\* ALLOWED_FW_37 and CONF37
CONF37 ==
  [ allowed_fw |-> <<"15M1IMS1.113">>,
    charge_control |-> [address |-> 215, offset_start |-> 138, offset_end |-> 128, range_min |-> 138, range_max |-> 228],
    webcam |-> [address |-> 46, block_address |-> 47, bit |-> 1],
    fn_win_swap |-> [address |-> 232, bit |-> 4, invert |-> TRUE],
    cooler_boost |-> [address |-> 152, bit |-> 7],
    shift_mode |-> [address |-> 210, modes |-> <<[name |-> "eco", value |-> 194], [name |-> "comfort", value |-> 193], [name |-> "turbo", value |-> 196]>>],
    super_battery |-> [address |-> 235, mask |-> 15],
    fan_mode |-> [address |-> 212, modes |-> <<[name |-> "auto", value |-> 13], [name |-> "silent", value |-> 29], [name |-> "advanced", value |-> 141]>>],
    cpu |-> [rt_temp_address |-> 104, rt_fan_speed_address |-> 113, rt_fan_speed_base_min |-> 25, rt_fan_speed_base_max |-> 55, bs_fan_speed_address |-> MSI_EC_ADDR_UNSUPP, bs_fan_speed_base_min |-> 0, bs_fan_speed_base_max |-> 15],
    gpu |-> [rt_temp_address |-> 128, rt_fan_speed_address |-> 137],
    leds |-> [micmute_led_address |-> 44, mute_led_address |-> 45, bit |-> 1],
    kbd_bl |-> [bl_mode_address |-> MSI_EC_ADDR_UNSUPP, bl_modes |-> <<0, 8>>, max_mode |-> 1, bl_state_address |-> MSI_EC_ADDR_UNSUPP, state_base_value |-> 128, max_state |-> 3] ]

\* ALLOWED_FW_38 and CONF38
CONF38 ==
  [ allowed_fw |-> <<"17E8IMS1.106", "17E8EMS1.101">>,
    charge_control |-> [address |-> 239, offset_start |-> 138, offset_end |-> 128, range_min |-> 138, range_max |-> 228],
    webcam |-> [address |-> 46, block_address |-> 47, bit |-> 1],
    fn_win_swap |-> [address |-> 191, bit |-> 4, invert |-> FALSE],
    cooler_boost |-> [address |-> 152, bit |-> 7],
    shift_mode |-> [address |-> 242, modes |-> <<[name |-> "eco", value |-> 194], [name |-> "comfort", value |-> 193], [name |-> "sport", value |-> 192], [name |-> "turbo", value |-> 196]>>],
    super_battery |-> [address |-> MSI_EC_ADDR_UNKNOWN, mask |-> 0],
    fan_mode |-> [address |-> 244, modes |-> <<[name |-> "auto", value |-> 0], [name |-> "advanced", value |-> 128]>>],
    cpu |-> [rt_temp_address |-> 104, rt_fan_speed_address |-> 113, rt_fan_speed_base_min |-> 25, rt_fan_speed_base_max |-> 55, bs_fan_speed_address |-> 137, bs_fan_speed_base_min |-> 0, bs_fan_speed_base_max |-> 15],
    gpu |-> [rt_temp_address |-> 128, rt_fan_speed_address |-> 137],
    leds |-> [micmute_led_address |-> MSI_EC_ADDR_UNKNOWN, mute_led_address |-> MSI_EC_ADDR_UNKNOWN, bit |-> 1],
    kbd_bl |-> [bl_mode_address |-> 44, bl_modes |-> <<0, 8>>, max_mode |-> 1, bl_state_address |-> 243, state_base_value |-> 128, max_state |-> 3] ]

\* ALLOWED_FW_39 and CONF39
CONF39 ==
  [ allowed_fw |-> <<"16R8IMS1.117">>,
    charge_control |-> [address |-> 215, offset_start |-> 138, offset_end |-> 128, range_min |-> 138, range_max |-> 228],
    webcam |-> [address |-> 46, block_address |-> MSI_EC_ADDR_UNSUPP, bit |-> 1],
    fn_win_swap |-> [address |-> 232, bit |-> 4, invert |-> FALSE],
    cooler_boost |-> [address |-> 152, bit |-> 7],
    shift_mode |-> [address |-> 210, modes |-> <<[name |-> "eco", value |-> 194], [name |-> "comfort", value |-> 193], [name |-> "turbo", value |-> 196]>>],
    super_battery |-> [address |-> 235, mask |-> 15],
    fan_mode |-> [address |-> 212, modes |-> <<[name |-> "auto", value |-> 13], [name |-> "silent", value |-> 29], [name |-> "advanced", value |-> 141]>>],
    cpu |-> [rt_temp_address |-> 104, rt_fan_speed_address |-> 113, rt_fan_speed_base_min |-> 0, rt_fan_speed_base_max |-> 150, bs_fan_speed_address |-> MSI_EC_ADDR_UNKNOWN, bs_fan_speed_base_min |-> 0, bs_fan_speed_base_max |-> 15],
    gpu |-> [rt_temp_address |-> 128, rt_fan_speed_address |-> MSI_EC_ADDR_UNSUPP],
    leds |-> [micmute_led_address |-> MSI_EC_ADDR_UNSUPP, mute_led_address |-> MSI_EC_ADDR_UNSUPP, bit |-> 1],
    kbd_bl |-> [bl_mode_address |-> MSI_EC_ADDR_UNSUPP, bl_modes |-> <<0, 0>>, max_mode |-> 1, bl_state_address |-> 211, state_base_value |-> 128, max_state |-> 3] ]

\* ALLOWED_FW_40 and CONF40
CONF40 ==
  [ allowed_fw |-> <<"17S1IMS1.105">>,
    charge_control |-> [address |-> 215, offset_start |-> 138, offset_end |-> 128, range_min |-> 138, range_max |-> 228],
    webcam |-> [address |-> 46, block_address |-> MSI_EC_ADDR_UNSUPP, bit |-> 1],
    fn_win_swap |-> [address |-> 232, bit |-> 4, invert |-> TRUE],
    cooler_boost |-> [address |-> 152, bit |-> 7],
    shift_mode |-> [address |-> 210, modes |-> <<[name |-> "comfort", value |-> 193], [name |-> "eco", value |-> 194], [name |-> "turbo", value |-> 196]>>],
    super_battery |-> [address |-> 235, mask |-> 15],
    fan_mode |-> [address |-> 212, modes |-> <<[name |-> "auto", value |-> 13], [name |-> "silent", value |-> 29], [name |-> "advanced", value |-> 141]>>],
    cpu |-> [rt_temp_address |-> 104, rt_fan_speed_address |-> 113, rt_fan_speed_base_min |-> 0, rt_fan_speed_base_max |-> 150, bs_fan_speed_address |-> 137, bs_fan_speed_base_min |-> 0, bs_fan_speed_base_max |-> 15],
    gpu |-> [rt_temp_address |-> 128, rt_fan_speed_address |-> 137],
    leds |-> [micmute_led_address |-> 44, mute_led_address |-> 45, bit |-> 1],
    kbd_bl |-> [bl_mode_address |-> MSI_EC_ADDR_UNSUPP, bl_modes |-> <<0, 8>>, max_mode |-> 1, bl_state_address |-> MSI_EC_ADDR_UNSUPP, state_base_value |-> 128, max_state |-> 3] ]

\* ALLOWED_FW_41 and CONF41
CONF41 ==
  [ allowed_fw |-> <<"15M1IMS2.111">>,
    charge_control |-> [address |-> 215, offset_start |-> 138, offset_end |-> 128, range_min |-> 138, range_max |-> 228],
    webcam |-> [address |-> 46, block_address |-> MSI_EC_ADDR_UNSUPP, bit |-> 1],
    fn_win_swap |-> [address |-> 232, bit |-> 4, invert |-> FALSE],
    cooler_boost |-> [address |-> 152, bit |-> 7],
    shift_mode |-> [address |-> 210, modes |-> <<[name |-> "comfort", value |-> 193], [name |-> "turbo", value |-> 196]>>],
    super_battery |-> [address |-> MSI_EC_ADDR_UNSUPP, mask |-> 0],
    fan_mode |-> [address |-> 212, modes |-> <<[name |-> "auto", value |-> 13], [name |-> "advanced", value |-> 141]>>],
    cpu |-> [rt_temp_address |-> 104, rt_fan_speed_address |-> 113, rt_fan_speed_base_min |-> 0, rt_fan_speed_base_max |-> 150, bs_fan_speed_address |-> 137, bs_fan_speed_base_min |-> 0, bs_fan_speed_base_max |-> 150],
    gpu |-> [rt_temp_address |-> 128, rt_fan_speed_address |-> 137],
    leds |-> [micmute_led_address |-> 44, mute_led_address |-> 45, bit |-> 1],
    kbd_bl |-> [bl_mode_address |-> MSI_EC_ADDR_UNSUPP, bl_modes |-> <<0, 8>>, max_mode |-> 1, bl_state_address |-> MSI_EC_ADDR_UNSUPP, state_base_value |-> 128, max_state |-> 3] ]

\* ALLOWED_FW_42 and CONF42
CONF42 ==
  [ allowed_fw |-> <<"14L1EMS1.307", "14L1EMS1.308">>,
    charge_control |-> [address |-> 215, offset_start |-> 138, offset_end |-> 128, range_min |-> 138, range_max |-> 228],
    webcam |-> [address |-> MSI_EC_ADDR_UNSUPP, block_address |-> 47, bit |-> 1],
    fn_win_swap |-> [address |-> 232, bit |-> 4, invert |-> FALSE],
    cooler_boost |-> [address |-> 152, bit |-> 7],
    shift_mode |-> [address |-> 210, modes |-> <<[name |-> "eco", value |-> 194], [name |-> "comfort", value |-> 193], [name |-> "turbo", value |-> 196]>>],
    super_battery |-> [address |-> 235, mask |-> 15],
    fan_mode |-> [address |-> 212, modes |-> <<[name |-> "auto", value |-> 13], [name |-> "silent", value |-> 29], [name |-> "advanced", value |-> 141]>>],
    cpu |-> [rt_temp_address |-> 104, rt_fan_speed_address |-> 201, rt_fan_speed_base_min |-> 0, rt_fan_speed_base_max |-> 150, bs_fan_speed_address |-> MSI_EC_ADDR_UNSUPP, bs_fan_speed_base_min |-> 0, bs_fan_speed_base_max |-> 15],
    gpu |-> [rt_temp_address |-> MSI_EC_ADDR_UNSUPP, rt_fan_speed_address |-> MSI_EC_ADDR_UNSUPP],
    leds |-> [micmute_led_address |-> 44, mute_led_address |-> MSI_EC_ADDR_UNSUPP, bit |-> 1],
    kbd_bl |-> [bl_mode_address |-> 44, bl_modes |-> <<0, 8>>, max_mode |-> 1, bl_state_address |-> 211, state_base_value |-> 128, max_state |-> 3] ]

CONFIGURATIONS ==
  <<CONF0, CONF1, CONF2, CONF3, CONF4, CONF5, CONF6, CONF7,
    CONF8, CONF9, CONF10, CONF11, CONF12, CONF13, CONF14, CONF15,
    CONF16, CONF17, CONF18, CONF19, CONF20, CONF21, CONF22, CONF23,
    CONF24, CONF25, CONF26, CONF27, CONF28, CONF29, CONF30, CONF31,
    CONF32, CONF33, CONF34, CONF35, CONF36, CONF37, CONF38, CONF39,
    CONF40, CONF41, CONF42>>

\* static struct msi_ec_conf conf: zero-initialised until load_configuration copies a profile
ZeroConf ==
  [ allowed_fw |-> <<>>,
    charge_control |-> [address |-> 0, offset_start |-> 0, offset_end |-> 0, range_min |-> 0, range_max |-> 0],
    webcam |-> [address |-> 0, block_address |-> 0, bit |-> 0],
    fn_win_swap |-> [address |-> 0, bit |-> 0, invert |-> FALSE],
    cooler_boost |-> [address |-> 0, bit |-> 0],
    shift_mode |-> [address |-> 0, modes |-> <<>>],
    super_battery |-> [address |-> 0, mask |-> 0],
    fan_mode |-> [address |-> 0, modes |-> <<>>],
    cpu |-> [rt_temp_address |-> 0, rt_fan_speed_address |-> 0, rt_fan_speed_base_min |-> 0, rt_fan_speed_base_max |-> 0, bs_fan_speed_address |-> 0, bs_fan_speed_base_min |-> 0, bs_fan_speed_base_max |-> 0],
    gpu |-> [rt_temp_address |-> 0, rt_fan_speed_address |-> 0],
    leds |-> [micmute_led_address |-> 0, mute_led_address |-> 0, bit |-> 0],
    kbd_bl |-> [bl_mode_address |-> 0, bl_modes |-> <<0, 0>>, max_mode |-> 0, bl_state_address |-> 0, state_base_value |-> 0, max_state |-> 0] ]
-----------------------------------------------------------------------------
(* Values shared by the handlers *)

\* what an uninitialised `int result` can hold when it is returned:
\* a negative value (returned as an error) or a non-negative one (count is returned)
UninitResults == {"OK", "EINVAL", "EIO"}

\* a user buffer: a word or a run of digits, followed by nl newline characters
NoBuf == [word |-> "", digits |-> <<>>, nl |-> 0]

Word(w, n) == [word |-> w, digits |-> <<>>, nl |-> n]

Digits(d, n) == [word |-> "", digits |-> d, nl |-> n]

\* what a show handler emits: a word, a number (-1: none), or a listing of names
NoOut == [text |-> "", num |-> -1, list |-> <<>>]

Out(t, n) == [text |-> t, num |-> n, list |-> <<>>]

OutList(l) == [text |-> "", num |-> -1, list |-> l]

Range(s) == {s[i] : i \in DOMAIN s}

u8(x) == x % 256

BitAt(v, b) == (v \div (2 ^ b)) % 2

\* bitwise | and & on bytes
u8_or(a, b) ==
  LET f[i \in 0..8] ==
        IF i = 8 THEN 0
        ELSE (IF BitAt(a, i) = 1 \/ BitAt(b, i) = 1 THEN 2 ^ i ELSE 0) + f[i + 1]
  IN f[0]

u8_and(a, b) ==
  LET f[i \in 0..8] ==
        IF i = 8 THEN 0
        ELSE (IF BitAt(a, i) = 1 /\ BitAt(b, i) = 1 THEN 2 ^ i ELSE 0) + f[i + 1]
  IN f[0]

\* ~x truncated to a byte
u8_not(a) == 255 - u8(a)

\* #define set_bit(v, b) (v |= (1 << b)), v a u8
set_bit(v, b) == u8_or(v, u8(2 ^ b))

\* #define unset_bit(v, b) (v &= ~(1 << b)), v a u8
unset_bit(v, b) == u8_and(v, u8_not(2 ^ b))

\* #define check_bit(v, b) ((bool)((v >> b) & 1))
check_bit(v, b) == BitAt(v, b) = 1

\* #define streq(x, y) (strcmp(x, y) == 0 || strcmp(x, y "\n") == 0)
streq(buf, y) == buf.digits = <<>> /\ buf.word = y /\ buf.nl \in {0, 1}

\* sysfs_streq(s1, s2): equal up to one trailing newline
sysfs_streq(name, buf) == buf.digits = <<>> /\ buf.word = name /\ buf.nl \in {0, 1}

DecValue(d) ==
  LET f[i \in 0..Len(d)] == IF i = 0 THEN 0 ELSE 10 * f[i - 1] + d[i]
  IN f[Len(d)]

\* kstrtou8(buf, 10, &wdata): decimal digits and at most one trailing newline, value below 256
kstrtou8(buf) ==
  IF buf.word # "" \/ buf.digits = <<>> \/ buf.nl > 1
    \/ \E i \in DOMAIN buf.digits : buf.digits[i] > 9
    THEN [result |-> "EINVAL", val |-> 0]
  ELSE IF DecValue(buf.digits) > 255 THEN [result |-> "ERANGE", val |-> 0]
  ELSE [result |-> "OK", val |-> DecValue(buf.digits)]

-----------------------------------------------------------------------------
(* The single-byte transport and the register access layer *)

\* one register access: field is the address expression passed by the caller
\* (-1 when it is not a profile field), addr the u8 the transport receives,
\* ok whether the transport carried it out
IoRead(field, addr, val, ok) ==
  [kind |-> "r", field |-> field, addr |-> addr, val |-> val, ok |-> ok]

IoWrite(field, addr, val, ok) ==
  [kind |-> "w", field |-> field, addr |-> addr, val |-> val, ok |-> ok]

\* result of a handler: return code, emitted text, register file afterwards, I/O issued
Ret(res, out, regs, io) == [result |-> res, out |-> out, ec |-> regs, io |-> io]

\* ec_read(addr, &rdata): fail is the transport's outcome
ec_read(regs, field, fail) ==
  LET addr == u8(field)
  IN IF fail THEN [result |-> "EIO", val |-> 0, io |-> <<IoRead(field, addr, 0, FALSE)>>]
     ELSE [result |-> "OK", val |-> regs[addr],
           io |-> <<IoRead(field, addr, regs[addr], TRUE)>>]

\* ec_write(addr, val): fail is the transport's outcome
ec_write(regs, field, val, fail) ==
  LET addr == u8(field)
  IN IF fail THEN [result |-> "EIO", ec |-> regs,
                   io |-> <<IoWrite(field, addr, u8(val), FALSE)>>]
     ELSE [result |-> "OK", ec |-> [regs EXCEPT ![addr] = u8(val)],
           io |-> <<IoWrite(field, addr, u8(val), TRUE)>>]

\* ec_read_seq(addr, buf, len): the read number failAt+1 fails (failAt >= len: none does)
ec_read_seq(regs, addr, len, failAt) ==
  LET n == IF failAt < len THEN failAt + 1 ELSE len
  IN [result |-> IF failAt < len THEN "EIO" ELSE "OK",
      io |-> [i \in 1..n |->
                IF i = failAt + 1 THEN IoRead(-1, u8(addr + i - 1), 0, FALSE)
                ELSE IoRead(-1, u8(addr + i - 1), regs[u8(addr + i - 1)], TRUE)]]

\* the new byte computed between the read and the write of ec_set_bit
ec_set_bit_value(stored, bit, value) ==
  IF value THEN set_bit(stored, bit) ELSE unset_bit(stored, bit)

\* the new byte computed by ec_set_by_mask: stored |= mask
ec_set_by_mask_value(stored, mask) == u8_or(stored, u8(mask))

\* the new byte computed by ec_unset_by_mask: stored &= ~mask
ec_unset_by_mask_value(stored, mask) == u8_and(stored, u8_not(mask))

\* ec_set_bit without the goto: after a failed read it goes on to update and write
\* the byte left in stored
ec_set_bit_without_goto(regs, field, bit, value, rfail, wfail) ==
  LET rd == ec_read(regs, field, rfail)
      wr == ec_write(regs, field, ec_set_bit_value(rd.val, bit, value), wfail)
  IN [result |-> wr.result, ec |-> wr.ec, io |-> rd.io \o wr.io]

\* ec_set_bit run to completion by one caller: read, update, write
ec_set_bit(regs, field, bit, value, rfail, wfail) ==
  LET rd == ec_read(regs, field, rfail)
  IN IF rd.result # "OK" THEN [result |-> rd.result, ec |-> regs, io |-> rd.io]
     ELSE LET wr == ec_write(regs, field, ec_set_bit_value(rd.val, bit, value), wfail)
          IN [result |-> wr.result, ec |-> wr.ec, io |-> rd.io \o wr.io]

\* ec_set_by_mask run to completion by one caller
ec_set_by_mask(regs, field, mask, rfail, wfail) ==
  LET rd == ec_read(regs, field, rfail)
  IN IF rd.result # "OK" THEN [result |-> rd.result, ec |-> regs, io |-> rd.io]
     ELSE LET wr == ec_write(regs, field, ec_set_by_mask_value(rd.val, mask), wfail)
          IN [result |-> wr.result, ec |-> wr.ec, io |-> rd.io \o wr.io]

\* ec_unset_by_mask run to completion by one caller
ec_unset_by_mask(regs, field, mask, rfail, wfail) ==
  LET rd == ec_read(regs, field, rfail)
  IN IF rd.result # "OK" THEN [result |-> rd.result, ec |-> regs, io |-> rd.io]
     ELSE LET wr == ec_write(regs, field, ec_unset_by_mask_value(rd.val, mask), wfail)
          IN [result |-> wr.result, ec |-> wr.ec, io |-> rd.io \o wr.io]

\* ec_check_bit: output is meaningful only when result is "OK"
ec_check_bit(regs, field, bit, fail) ==
  LET rd == ec_read(regs, field, fail)
  IN [result |-> rd.result, output |-> check_bit(rd.val, bit), io |-> rd.io]

\* ec_check_by_mask: output is meaningful only when result is "OK"
ec_check_by_mask(regs, field, mask, fail) ==
  LET rd == ec_read(regs, field, fail)
  IN [result |-> rd.result, output |-> (u8_and(rd.val, u8(mask)) = u8(mask)), io |-> rd.io]

\* ec_get_firmware_version: the identifier is the content of the reserved registers
ec_get_firmware_version(failAt) ==
  LET rd == ec_read_seq(ec, MSI_EC_FW_VERSION_ADDRESS, MSI_EC_FW_VERSION_LENGTH, failAt)
  IN [result |-> rd.result, ver |-> ec_fw, io |-> rd.io]

-----------------------------------------------------------------------------
(* Configuration resolver *)

\* match_string(array, -1, string): index of the first equal entry, 0 for -EINVAL
match_string(array, string) ==
  IF \E i \in DOMAIN array : array[i] = string
    THEN CHOOSE i \in DOMAIN array :
           array[i] = string /\ \A j \in 1..(i - 1) : array[j] # string
  ELSE 0

\* a resolver that keeps scanning after a hit and copies the profile after the match
RECURSIVE FirstMatch_copies_next(_, _)
FirstMatch_copies_next(i, ver) ==
  IF i > Len(CONFIGURATIONS) THEN 0
  ELSE IF match_string(CONFIGURATIONS[i].allowed_fw, ver) # 0
    THEN IF i < Len(CONFIGURATIONS) THEN i + 1 ELSE i
  ELSE FirstMatch_copies_next(i + 1, ver)

\* the loop of load_configuration: index of the profile that is copied, 0 if the loop ends
RECURSIVE FirstMatch(_, _)
FirstMatch(i, ver) ==
  IF i > Len(CONFIGURATIONS) THEN 0
  ELSE IF match_string(CONFIGURATIONS[i].allowed_fw, ver) # 0 THEN i
  ELSE FirstMatch(i + 1, ver)

\* memcpy(&conf, CONFIGURATIONS[i], sizeof conf); conf.allowed_fw = NULL
CopyProfile(i) == [CONFIGURATIONS[i] EXCEPT !.allowed_fw = <<>>]

\* a resolver that accepts an unknown firmware whatever the debug flag says
load_configuration_accepts_unknown(failAt) ==
  LET rd == ec_get_firmware_version(failAt)
      byEc == (firmware = <<>>)
      ver == IF byEc THEN rd.ver ELSE firmware[1]
      i == FirstMatch(1, ver)
      io == IF byEc THEN rd.io ELSE <<>>
  IN IF byEc /\ rd.result # "OK"
       THEN [result |-> rd.result, conf |-> conf, conf_loaded |-> conf_loaded, io |-> io]
     ELSE IF i # 0
       THEN [result |-> "OK", conf |-> CopyProfile(i), conf_loaded |-> TRUE, io |-> io]
     ELSE [result |-> "OK", conf |-> conf, conf_loaded |-> conf_loaded, io |-> io]

\* a resolver that treats a failed identifier read as an unknown firmware
load_configuration_read_error_as_no_match(failAt) ==
  LET rd == ec_get_firmware_version(failAt)
      byEc == (firmware = <<>>)
      ver == IF byEc THEN rd.ver ELSE firmware[1]
      i == IF byEc /\ rd.result # "OK" THEN 0 ELSE FirstMatch(1, ver)
      io == IF byEc THEN rd.io ELSE <<>>
  IN IF i # 0
       THEN [result |-> "OK", conf |-> CopyProfile(i), conf_loaded |-> TRUE, io |-> io]
     ELSE IF debug
       THEN [result |-> "OK", conf |-> conf, conf_loaded |-> conf_loaded, io |-> io]
     ELSE [result |-> "EOPNOTSUPP", conf |-> conf, conf_loaded |-> conf_loaded, io |-> io]

load_configuration(failAt) ==
  LET rd == ec_get_firmware_version(failAt)
      byEc == (firmware = <<>>)
      ver == IF byEc THEN rd.ver ELSE firmware[1]
      i == FirstMatch(1, ver)
      io == IF byEc THEN rd.io ELSE <<>>
  IN IF byEc /\ rd.result # "OK"
       THEN [result |-> rd.result, conf |-> conf, conf_loaded |-> conf_loaded, io |-> io]
     ELSE IF i # 0
       THEN [result |-> "OK", conf |-> CopyProfile(i), conf_loaded |-> TRUE, io |-> io]
     ELSE IF debug
       THEN [result |-> "OK", conf |-> conf, conf_loaded |-> conf_loaded, io |-> io]
     ELSE [result |-> "EOPNOTSUPP", conf |-> conf, conf_loaded |-> conf_loaded, io |-> io]

-----------------------------------------------------------------------------
(* Capability gate and sysfs groups *)

msi_root_attrs ==
  <<"webcam", "webcam_block", "fn_key", "win_key", "battery_mode", "cooler_boost",
    "available_shift_modes", "shift_mode", "super_battery", "available_fan_modes",
    "fan_mode", "fw_version", "fw_release_date">>

msi_cpu_attrs ==
  <<"cpu_realtime_temperature", "cpu_realtime_fan_speed", "cpu_basic_fan_speed">>

msi_gpu_attrs ==
  <<"gpu_realtime_temperature", "gpu_realtime_fan_speed">>

msi_debug_attrs ==
  <<"fw_version", "ec_dump", "ec_set", "ec_get">>

msi_battery_attrs ==
  <<"charge_control_start_threshold", "charge_control_end_threshold">>

\* msi_platform_groups: the debug group is created separately
msi_platform_groups == {"root", "cpu", "gpu"}

\* the address msi_ec_is_visible looks at; -1 for the attributes of its default branch
GateAddress(c, attr) ==
  CASE attr = "webcam" -> c.webcam.address
    [] attr = "webcam_block" -> c.webcam.block_address
    [] attr \in {"fn_key", "win_key"} -> c.fn_win_swap.address
    [] attr = "battery_mode" -> c.charge_control.address
    [] attr = "cooler_boost" -> c.cooler_boost.address
    [] attr \in {"available_shift_modes", "shift_mode"} -> c.shift_mode.address
    [] attr = "super_battery" -> c.super_battery.address
    [] attr \in {"available_fan_modes", "fan_mode"} -> c.fan_mode.address
    [] attr = "cpu_realtime_temperature" -> c.cpu.rt_temp_address
    [] attr = "cpu_realtime_fan_speed" -> c.cpu.rt_fan_speed_address
    [] attr = "cpu_basic_fan_speed" -> c.cpu.bs_fan_speed_address
    [] attr = "gpu_realtime_temperature" -> c.gpu.rt_temp_address
    [] attr = "gpu_realtime_fan_speed" -> c.gpu.rt_fan_speed_address
    [] OTHER -> -1

\* a gate that hides nothing
msi_ec_is_visible_always(c, attr) == TRUE

\* a gate that hides both sentinels
msi_ec_is_visible_hides_unknown(c, attr) ==
  IF GateAddress(c, attr) = -1 THEN TRUE
  ELSE GateAddress(c, attr) \notin {MSI_EC_ADDR_UNSUPP, MSI_EC_ADDR_UNKNOWN}

\* TRUE when the attribute keeps its mode, FALSE when msi_ec_is_visible returns 0
msi_ec_is_visible(c, attr) ==
  IF GateAddress(c, attr) = -1 THEN TRUE
  ELSE GateAddress(c, attr) # MSI_EC_ADDR_UNSUPP

\* the attribute files a group puts on its device
GroupAttrs(g) ==
  CASE g = "root" -> {a \in Range(msi_root_attrs) : msi_ec_is_visible(conf, a)}
    [] g = "cpu" -> {a \in Range(msi_cpu_attrs) : msi_ec_is_visible(conf, a)}
    [] g = "gpu" -> {a \in Range(msi_gpu_attrs) : msi_ec_is_visible(conf, a)}
    [] g = "debug" -> Range(msi_debug_attrs)

\* every attribute file that exists: platform device groups and battery group
Exposed ==
  UNION {GroupAttrs(g) : g \in groups}
    \cup (IF battery_attrs THEN Range(msi_battery_attrs) ELSE {})

\* a probe that creates the feature groups without looking at conf_loaded
msi_platform_probe_unconditional(dbg, loaded, debugGroupFails, groupsFail) ==
  IF dbg /\ debugGroupFails THEN [result |-> "ENOMEM", groups |-> {}]
  ELSE LET dg == IF dbg THEN {"debug"} ELSE {}
       IN IF groupsFail THEN [result |-> "ENOMEM", groups |-> dg]
          ELSE [result |-> "OK", groups |-> dg \cup msi_platform_groups]

\* msi_platform_probe: which groups exist afterwards
msi_platform_probe(dbg, loaded, debugGroupFails, groupsFail) ==
  IF dbg /\ debugGroupFails THEN [result |-> "ENOMEM", groups |-> {}]
  ELSE LET dg == IF dbg THEN {"debug"} ELSE {}
       IN IF ~loaded THEN [result |-> "OK", groups |-> dg]
          ELSE IF groupsFail THEN [result |-> "ENOMEM", groups |-> dg]
          ELSE [result |-> "OK", groups |-> dg \cup msi_platform_groups]

\* LED registration that ignores the sentinel
LedsOf_ungated(c) == {"micmute_led_cdev", "mute_led_cdev", "msiacpi_led_kbdlight"}

\* the LED classdevs msi_ec_init registers and msi_ec_exit unregisters
LedsOf(c) ==
  (IF c.leds.micmute_led_address # MSI_EC_ADDR_UNSUPP THEN {"micmute_led_cdev"} ELSE {})
    \cup (IF c.leds.mute_led_address # MSI_EC_ADDR_UNSUPP THEN {"mute_led_cdev"} ELSE {})
    \cup (IF c.kbd_bl.bl_state_address # MSI_EC_ADDR_UNSUPP
            THEN {"msiacpi_led_kbdlight"} ELSE {})

AllLeds == {"micmute_led_cdev", "mute_led_cdev", "msiacpi_led_kbdlight"}

-----------------------------------------------------------------------------
(* Inputs explored *)

\* firmware identifiers tried as the `firmware` parameter: allow-list entries of
\* several profiles, near misses of an entry, and an identifier of no profile
FwOverrides ==
  {"16V4EMS1.114", "1542EMS1.102", "1582EMS1.107", "16S6EMS1.111", "17Q2IMS1.10D",
   "14L1EMS1.307", "16S6EMS1.11", "16s6ems1.111", "00000000.000"}

\* identifiers the EC's reserved registers may hold
EcFwValues == {"14C1EMS1.012", "ZZZZEMS1.001"}

\* the parameters the debug flag is explored with
DebugFw == {<<>>, <<"16S6EMS1.111">>, <<"16S6EMS1.11">>, <<"00000000.000">>}

\* byte every register holds when the module is loaded
InitFill == {0}

\* where the transport may fail inside the identifier read: first byte, sixth byte, never
FwFailAt == {0, 5, MSI_EC_FW_VERSION_LENGTH}

Mutexes == {"ec_set_bit_mutex", "ec_set_by_mask_mutex", "ec_unset_by_mask_mutex"}

-----------------------------------------------------------------------------
(* Module load and unload *)

Init ==
  /\ debug \in BOOLEAN
  /\ firmware \in {<<>>} \cup {<<s>> : s \in FwOverrides}
  /\ ec_fw \in EcFwValues
  /\ (firmware # <<>> => ec_fw = "14C1EMS1.012")
  /\ (debug => firmware \in DebugFw)
  /\ \E v \in InitFill : ec = [a \in 0..255 |-> v]
  /\ ec0 = ec
  /\ conf_loaded = FALSE
  /\ conf = ZeroConf
  /\ state = "unloaded"
  /\ init_result = "OK"
  /\ registered = {}
  /\ groups = {}
  /\ battery_attrs = FALSE
  /\ ec_get_addr = 0
  /\ last = [op |-> "none", arg |-> NoBuf, result |-> "OK", out |-> NoOut, io |-> <<>>]
  /\ nops = 0
  /\ mutex = [m \in Mutexes |-> 0]
  /\ th = <<>>

\* the one resource failure a module load may meet: registering the driver, allocating
\* or adding the device, creating the debug group or the feature groups in the probe,
\* or registering the LED classdevs (the return value of led_classdev_register is dropped)
InitFaults ==
  {"none", "driver_register", "device_alloc", "device_add", "debug_group", "groups", "leds"}

\* msi_ec_init, with the probe the platform bus runs inside platform_device_add
msi_ec_init ==
  /\ state = "unloaded"
  /\ \E failAt \in FwFailAt, fault \in InitFaults :
       LET lc == load_configuration(failAt)
           pr == msi_platform_probe(debug, lc.conf_loaded, fault = "debug_group",
                                    fault = "groups")
           res == IF lc.result # "OK" THEN lc.result
                  ELSE IF fault = "driver_register" THEN "EBUSY"
                  ELSE IF fault = "device_alloc" THEN "ENOMEM"
                  ELSE IF fault = "device_add" THEN "EEXIST"
                  ELSE "OK"
       IN /\ conf' = lc.conf
          /\ conf_loaded' = lc.conf_loaded
          /\ init_result' = res
          /\ state' = IF res = "OK" THEN "live" ELSE "failed"
          /\ groups' = IF res = "OK" THEN pr.groups ELSE {}
          /\ registered' =
               IF res # "OK" THEN {}
               ELSE {"msi_platform_driver", "msi_platform_device"}
                      \cup (IF lc.conf_loaded
                              THEN {"battery_hook"}
                                     \cup (IF fault = "leds" THEN {} ELSE LedsOf(lc.conf))
                              ELSE {})
          /\ last' = [op |-> "msi_ec_init", arg |-> NoBuf, result |-> res, out |-> NoOut,
                      io |-> lc.io]
  /\ UNCHANGED <<firmware, debug, ec_fw, ec, battery_attrs, ec_get_addr, nops, mutex, th, ec0>>

\* msi_battery_add that marks the configuration as not loaded when the groups cannot be added
msi_battery_add_clears_conf_loaded ==
  /\ state = "live"
  /\ "battery_hook" \in registered
  /\ ~battery_attrs
  /\ \E addGroupsFails \in BOOLEAN :
       /\ battery_attrs' = ~addGroupsFails
       /\ conf_loaded' = (conf_loaded /\ ~addGroupsFails)
  /\ UNCHANGED <<firmware, debug, ec_fw, ec, conf, state, init_result,
                 registered, groups, ec_get_addr, last, nops, mutex, th, ec0>>

\* the ACPI battery subsystem calls msi_battery_add for a battery once the hook is registered
msi_battery_add ==
  /\ state = "live"
  /\ "battery_hook" \in registered
  /\ ~battery_attrs
  /\ \E addGroupsFails \in BOOLEAN : battery_attrs' = ~addGroupsFails
  /\ UNCHANGED <<firmware, debug, ec_fw, ec, conf_loaded, conf, state, init_result,
                 registered, groups, ec_get_addr, last, nops, mutex, th, ec0>>

\* the battery goes away while the hook is registered
msi_battery_remove ==
  /\ state = "live"
  /\ battery_attrs
  /\ battery_attrs' = FALSE
  /\ UNCHANGED <<firmware, debug, ec_fw, ec, conf_loaded, conf, state, init_result,
                 registered, groups, ec_get_addr, last, nops, mutex, th, ec0>>

-----------------------------------------------------------------------------
(* Handlers: what each computes from the register file and its input *)

\* a threshold show that prints the raw byte without taking the offset off
charge_control_threshold_show_raw(regs, c, offset, rfail) ==
  LET rd == ec_read(regs, c.charge_control.address, rfail)
  IN IF rd.result # "OK" THEN Ret(rd.result, NoOut, regs, rd.io)
     ELSE IF rd.val = 128 THEN Ret("OK", Out("", 0), regs, rd.io)
     ELSE Ret("OK", Out("", rd.val), regs, rd.io)

charge_control_threshold_show(regs, c, offset, rfail) ==
  LET rd == ec_read(regs, c.charge_control.address, rfail)
  IN IF rd.result # "OK" THEN Ret(rd.result, NoOut, regs, rd.io)
     ELSE IF rd.val = 128 THEN Ret("OK", Out("", 0), regs, rd.io)
     ELSE Ret("OK", Out("", rd.val - offset), regs, rd.io)

\* a threshold store that commits the byte without the range check
charge_control_threshold_store_unchecked(regs, c, offset, buf, wfail) ==
  LET p == kstrtou8(buf)
      wdata == u8(p.val + offset)
  IN IF p.result # "OK" THEN Ret(p.result, NoOut, regs, <<>>)
     ELSE LET wr == ec_write(regs, c.charge_control.address, wdata, wfail)
          IN Ret(wr.result, NoOut, wr.ec, wr.io)

\* a threshold store that tests the wrapped byte against the upper limit only
charge_control_threshold_store_upper_only(regs, c, offset, buf, wfail) ==
  LET p == kstrtou8(buf)
      wdata == u8(p.val + offset)
  IN IF p.result # "OK" THEN Ret(p.result, NoOut, regs, <<>>)
     ELSE IF wdata > c.charge_control.range_max THEN Ret("EINVAL", NoOut, regs, <<>>)
     ELSE LET wr == ec_write(regs, c.charge_control.address, wdata, wfail)
          IN Ret(wr.result, NoOut, wr.ec, wr.io)

charge_control_threshold_store(regs, c, offset, buf, wfail) ==
  LET p == kstrtou8(buf)
      wdata == u8(p.val + offset)
  IN IF p.result # "OK" THEN Ret(p.result, NoOut, regs, <<>>)
     ELSE IF wdata < c.charge_control.range_min \/ wdata > c.charge_control.range_max
       THEN Ret("EINVAL", NoOut, regs, <<>>)
     ELSE LET wr == ec_write(regs, c.charge_control.address, wdata, wfail)
          IN Ret(wr.result, NoOut, wr.ec, wr.io)

webcam_common_show(regs, c, address, str_on_0, str_on_1, rfail) ==
  LET cb == ec_check_bit(regs, address, c.webcam.bit, rfail)
  IN IF cb.result # "OK" THEN Ret(cb.result, NoOut, regs, cb.io)
     ELSE Ret("OK", Out(IF cb.output THEN str_on_1 ELSE str_on_0, -1), regs, cb.io)

\* two independent ifs: each match runs its own ec_set_bit
webcam_common_store(regs, c, address, buf, str_for_0, str_for_1, rfail, wfail) ==
  LET s1 == IF sysfs_streq(str_for_1, buf)
              THEN ec_set_bit(regs, address, c.webcam.bit, TRUE, rfail, wfail)
              ELSE [result |-> "EINVAL", ec |-> regs, io |-> <<>>]
      s0 == IF sysfs_streq(str_for_0, buf)
              THEN LET sb == ec_set_bit(s1.ec, address, c.webcam.bit, FALSE, rfail, wfail)
                   IN [result |-> sb.result, ec |-> sb.ec, io |-> s1.io \o sb.io]
              ELSE s1
  IN Ret(s0.result, NoOut, s0.ec, s0.io)

\* the result of ec_check_bit is not tested: on a failed read bit_value is uninitialised
fn_key_show(regs, c, rfail, garbage) ==
  LET cb == ec_check_bit(regs, c.fn_win_swap.address, c.fn_win_swap.bit, rfail)
      bit_value == IF cb.result = "OK" THEN cb.output ELSE garbage
  IN Ret("OK", Out(IF bit_value # c.fn_win_swap.invert THEN "right" ELSE "left", -1),
         regs, cb.io)

\* a key-swap store that writes the bit without applying invert
fn_key_store_ignores_invert(regs, c, buf, rfail, wfail, uninit) ==
  IF streq(buf, "right")
    THEN LET sb == ec_set_bit(regs, c.fn_win_swap.address, c.fn_win_swap.bit, TRUE,
                              rfail, wfail)
         IN Ret(sb.result, NoOut, sb.ec, sb.io)
  ELSE IF streq(buf, "left")
    THEN LET sb == ec_set_bit(regs, c.fn_win_swap.address, c.fn_win_swap.bit, FALSE,
                              rfail, wfail)
         IN Ret(sb.result, NoOut, sb.ec, sb.io)
  ELSE Ret(uninit, NoOut, regs, <<>>)

\* `int result` has no initialiser: with neither word it is returned uninitialised
fn_key_store(regs, c, buf, rfail, wfail, uninit) ==
  IF streq(buf, "right")
    THEN LET sb == ec_set_bit(regs, c.fn_win_swap.address, c.fn_win_swap.bit,
                              TRUE # c.fn_win_swap.invert, rfail, wfail)
         IN Ret(sb.result, NoOut, sb.ec, sb.io)
  ELSE IF streq(buf, "left")
    THEN LET sb == ec_set_bit(regs, c.fn_win_swap.address, c.fn_win_swap.bit,
                              FALSE # c.fn_win_swap.invert, rfail, wfail)
         IN Ret(sb.result, NoOut, sb.ec, sb.io)
  ELSE Ret(uninit, NoOut, regs, <<>>)

\* a win_key show that labels the bit as fn_key_show does
win_key_show_labels_as_fn_key(regs, c, rfail, garbage) ==
  LET cb == ec_check_bit(regs, c.fn_win_swap.address, c.fn_win_swap.bit, rfail)
      bit_value == IF cb.result = "OK" THEN cb.output ELSE garbage
  IN Ret("OK", Out(IF bit_value # c.fn_win_swap.invert THEN "right" ELSE "left", -1),
         regs, cb.io)

win_key_show(regs, c, rfail, garbage) ==
  LET cb == ec_check_bit(regs, c.fn_win_swap.address, c.fn_win_swap.bit, rfail)
      bit_value == IF cb.result = "OK" THEN cb.output ELSE garbage
  IN Ret("OK", Out(IF bit_value # c.fn_win_swap.invert THEN "left" ELSE "right", -1),
         regs, cb.io)

win_key_store(regs, c, buf, rfail, wfail, uninit) ==
  IF streq(buf, "right")
    THEN LET sb == ec_set_bit(regs, c.fn_win_swap.address, c.fn_win_swap.bit,
                              FALSE # c.fn_win_swap.invert, rfail, wfail)
         IN Ret(sb.result, NoOut, sb.ec, sb.io)
  ELSE IF streq(buf, "left")
    THEN LET sb == ec_set_bit(regs, c.fn_win_swap.address, c.fn_win_swap.bit,
                              TRUE # c.fn_win_swap.invert, rfail, wfail)
         IN Ret(sb.result, NoOut, sb.ec, sb.io)
  ELSE Ret(uninit, NoOut, regs, <<>>)

battery_mode_show(regs, c, rfail) ==
  LET rd == ec_read(regs, c.charge_control.address, rfail)
  IN IF rd.result # "OK" THEN Ret(rd.result, NoOut, regs, rd.io)
     ELSE IF rd.val = c.charge_control.range_max THEN Ret("OK", Out("max", -1), regs, rd.io)
     ELSE IF rd.val = c.charge_control.offset_end + 80
       THEN Ret("OK", Out("medium", -1), regs, rd.io)
     ELSE IF rd.val = c.charge_control.offset_end + 60
       THEN Ret("OK", Out("min", -1), regs, rd.io)
     ELSE Ret("OK", Out("unknown", rd.val), regs, rd.io)

\* a battery_mode store whose medium preset is ten below the literal the show tests
battery_mode_store_medium_70(regs, c, buf, wfail) ==
  LET wr(v) == ec_write(regs, c.charge_control.address, v, wfail)
      done(w) == Ret(w.result, NoOut, w.ec, w.io)
  IN IF streq(buf, "max") THEN done(wr(c.charge_control.range_max))
     ELSE IF streq(buf, "medium") THEN done(wr(c.charge_control.offset_end + 70))
     ELSE IF streq(buf, "min") THEN done(wr(c.charge_control.offset_end + 60))
     ELSE Ret("EINVAL", NoOut, regs, <<>>)

battery_mode_store(regs, c, buf, wfail) ==
  LET wr(v) == ec_write(regs, c.charge_control.address, v, wfail)
      done(w) == Ret(w.result, NoOut, w.ec, w.io)
  IN IF streq(buf, "max") THEN done(wr(c.charge_control.range_max))
     ELSE IF streq(buf, "medium") THEN done(wr(c.charge_control.offset_end + 80))
     ELSE IF streq(buf, "min") THEN done(wr(c.charge_control.offset_end + 60))
     ELSE Ret("EINVAL", NoOut, regs, <<>>)

\* the result of ec_check_bit is not tested: on a failed read bit_value is uninitialised
cooler_boost_show(regs, c, rfail, garbage) ==
  LET cb == ec_check_bit(regs, c.cooler_boost.address, c.cooler_boost.bit, rfail)
      bit_value == IF cb.result = "OK" THEN cb.output ELSE garbage
  IN Ret("OK", Out(IF bit_value THEN "on" ELSE "off", -1), regs, cb.io)

cooler_boost_store(regs, c, buf, rfail, wfail) ==
  IF streq(buf, "on")
    THEN LET sb == ec_set_bit(regs, c.cooler_boost.address, c.cooler_boost.bit, TRUE,
                              rfail, wfail)
         IN Ret(sb.result, NoOut, sb.ec, sb.io)
  ELSE IF streq(buf, "off")
    THEN LET sb == ec_set_bit(regs, c.cooler_boost.address, c.cooler_boost.bit, FALSE,
                              rfail, wfail)
         IN Ret(sb.result, NoOut, sb.ec, sb.io)
  ELSE Ret("EINVAL", NoOut, regs, <<>>)

\* the names of a mode table, in order, as one listing
ModeNames(modes) == [i \in DOMAIN modes |-> modes[i].name]

\* index of the first table entry with this raw value, 0 if none
ModeOfValue(modes, v) ==
  IF \E i \in DOMAIN modes : modes[i].value = v
    THEN CHOOSE i \in DOMAIN modes :
           modes[i].value = v /\ \A j \in 1..(i - 1) : modes[j].value # v
  ELSE 0

\* index of the first table entry whose name sysfs_streq-matches the buffer, 0 if none
ModeOfName(modes, buf) ==
  IF \E i \in DOMAIN modes : sysfs_streq(modes[i].name, buf)
    THEN CHOOSE i \in DOMAIN modes :
           sysfs_streq(modes[i].name, buf)
             /\ \A j \in 1..(i - 1) : ~sysfs_streq(modes[j].name, buf)
  ELSE 0

\* a shift-mode show without the 0x80 case
shift_mode_show_without_unspecified(regs, c, rfail) ==
  LET rd == ec_read(regs, c.shift_mode.address, rfail)
      i == ModeOfValue(c.shift_mode.modes, rd.val)
  IN IF rd.result # "OK" THEN Ret(rd.result, NoOut, regs, rd.io)
     ELSE IF i # 0 THEN Ret("OK", Out(c.shift_mode.modes[i].name, -1), regs, rd.io)
     ELSE Ret("OK", Out("unknown", rd.val), regs, rd.io)

shift_mode_show(regs, c, rfail) ==
  LET rd == ec_read(regs, c.shift_mode.address, rfail)
      i == ModeOfValue(c.shift_mode.modes, rd.val)
  IN IF rd.result # "OK" THEN Ret(rd.result, NoOut, regs, rd.io)
     ELSE IF rd.val = 128 THEN Ret("OK", Out("unspecified", -1), regs, rd.io)
     ELSE IF i # 0 THEN Ret("OK", Out(c.shift_mode.modes[i].name, -1), regs, rd.io)
     ELSE Ret("OK", Out("unknown", rd.val), regs, rd.io)

\* a shift-mode store that writes the position of the name instead of its raw value
shift_mode_store_writes_index(regs, c, buf, wfail) ==
  LET i == ModeOfName(c.shift_mode.modes, buf)
  IN IF i = 0 THEN Ret("EINVAL", NoOut, regs, <<>>)
     ELSE LET wr == ec_write(regs, c.shift_mode.address, i - 1, wfail)
          IN Ret(wr.result, NoOut, wr.ec, wr.io)

shift_mode_store(regs, c, buf, wfail) ==
  LET i == ModeOfName(c.shift_mode.modes, buf)
  IN IF i = 0 THEN Ret("EINVAL", NoOut, regs, <<>>)
     ELSE LET wr == ec_write(regs, c.shift_mode.address, c.shift_mode.modes[i].value, wfail)
          IN Ret(wr.result, NoOut, wr.ec, wr.io)

\* the result of ec_check_by_mask is not tested: on a failed read enabled is uninitialised
super_battery_show(regs, c, rfail, garbage) ==
  LET cm == ec_check_by_mask(regs, c.super_battery.address, c.super_battery.mask, rfail)
      enabled == IF cm.result = "OK" THEN cm.output ELSE garbage
  IN Ret("OK", Out(IF enabled THEN "on" ELSE "off", -1), regs, cm.io)

super_battery_store(regs, c, buf, rfail, wfail) ==
  IF streq(buf, "on")
    THEN LET sm == ec_set_by_mask(regs, c.super_battery.address, c.super_battery.mask,
                                  rfail, wfail)
         IN Ret(sm.result, NoOut, sm.ec, sm.io)
  ELSE IF streq(buf, "off")
    THEN LET sm == ec_unset_by_mask(regs, c.super_battery.address, c.super_battery.mask,
                                    rfail, wfail)
         IN Ret(sm.result, NoOut, sm.ec, sm.io)
  ELSE Ret("EINVAL", NoOut, regs, <<>>)

\* a fan-mode show with the 0x80 case of shift_mode_show
fan_mode_show_with_unspecified(regs, c, rfail) ==
  LET rd == ec_read(regs, c.fan_mode.address, rfail)
      i == ModeOfValue(c.fan_mode.modes, rd.val)
  IN IF rd.result # "OK" THEN Ret(rd.result, NoOut, regs, rd.io)
     ELSE IF rd.val = 128 THEN Ret("OK", Out("unspecified", -1), regs, rd.io)
     ELSE IF i # 0 THEN Ret("OK", Out(c.fan_mode.modes[i].name, -1), regs, rd.io)
     ELSE Ret("OK", Out("unknown", rd.val), regs, rd.io)

\* no 0x80 case here, unlike shift_mode_show
fan_mode_show(regs, c, rfail) ==
  LET rd == ec_read(regs, c.fan_mode.address, rfail)
      i == ModeOfValue(c.fan_mode.modes, rd.val)
  IN IF rd.result # "OK" THEN Ret(rd.result, NoOut, regs, rd.io)
     ELSE IF i # 0 THEN Ret("OK", Out(c.fan_mode.modes[i].name, -1), regs, rd.io)
     ELSE Ret("OK", Out("unknown", rd.val), regs, rd.io)

fan_mode_store(regs, c, buf, wfail) ==
  LET i == ModeOfName(c.fan_mode.modes, buf)
  IN IF i = 0 THEN Ret("EINVAL", NoOut, regs, <<>>)
     ELSE LET wr == ec_write(regs, c.fan_mode.address, c.fan_mode.modes[i].value, wfail)
          IN Ret(wr.result, NoOut, wr.ec, wr.io)

fw_version_show(regs, failAt) ==
  LET rd == ec_get_firmware_version(failAt)
  IN IF rd.result # "OK" THEN Ret(rd.result, NoOut, regs, rd.io)
     ELSE Ret("OK", Out(rd.ver, -1), regs, rd.io)

\* the date is read first, then the time; the two fields are reformatted for display
fw_release_date_show(regs, dateFailAt, timeFailAt) ==
  LET rdate == ec_read_seq(regs, MSI_EC_FW_DATE_ADDRESS, MSI_EC_FW_DATE_LENGTH, dateFailAt)
      rtime == ec_read_seq(regs, MSI_EC_FW_TIME_ADDRESS, MSI_EC_FW_TIME_LENGTH, timeFailAt)
  IN IF rdate.result # "OK" THEN Ret(rdate.result, NoOut, regs, rdate.io)
     ELSE IF rtime.result # "OK" THEN Ret(rtime.result, NoOut, regs, rdate.io \o rtime.io)
     ELSE Ret("OK", Out("date", -1), regs, rdate.io \o rtime.io)

available_shift_modes_show(regs, c) ==
  Ret("OK", OutList(ModeNames(c.shift_mode.modes)), regs, <<>>)

available_fan_modes_show(regs, c) ==
  Ret("OK", OutList(ModeNames(c.fan_mode.modes)), regs, <<>>)

\* a plain byte shown as a number: the realtime temperatures and the GPU fan speed
RawByteShow(regs, field, rfail) ==
  LET rd == ec_read(regs, field, rfail)
  IN IF rd.result # "OK" THEN Ret(rd.result, NoOut, regs, rd.io)
     ELSE Ret("OK", Out("", rd.val), regs, rd.io)

\* 100 * (rdata - base_min) / (base_max - base_min); a zero divisor traps
FanSpeedShow(regs, field, base_min, base_max, rfail) ==
  LET rd == ec_read(regs, field, rfail)
  IN IF rd.result # "OK" THEN Ret(rd.result, NoOut, regs, rd.io)
     ELSE IF rd.val < base_min \/ rd.val > base_max THEN Ret("EINVAL", NoOut, regs, rd.io)
     ELSE IF base_max = base_min THEN Ret("DIVIDE_ERROR", NoOut, regs, rd.io)
     ELSE Ret("OK", Out("", (100 * (rd.val - base_min)) \div (base_max - base_min)),
              regs, rd.io)

cpu_realtime_temperature_show(regs, c, rfail) ==
  RawByteShow(regs, c.cpu.rt_temp_address, rfail)

cpu_realtime_fan_speed_show(regs, c, rfail) ==
  FanSpeedShow(regs, c.cpu.rt_fan_speed_address, c.cpu.rt_fan_speed_base_min,
               c.cpu.rt_fan_speed_base_max, rfail)

cpu_basic_fan_speed_show(regs, c, rfail) ==
  FanSpeedShow(regs, c.cpu.bs_fan_speed_address, c.cpu.bs_fan_speed_base_min,
               c.cpu.bs_fan_speed_base_max, rfail)

cpu_basic_fan_speed_store(regs, c, buf, wfail) ==
  LET p == kstrtou8(buf)
  IN IF p.result # "OK" THEN Ret(p.result, NoOut, regs, <<>>)
     ELSE IF p.val > 100 THEN Ret("EINVAL", NoOut, regs, <<>>)
     ELSE LET wr == ec_write(regs, c.cpu.bs_fan_speed_address,
                             (p.val * (c.cpu.bs_fan_speed_base_max
                                         - c.cpu.bs_fan_speed_base_min)
                                + 100 * c.cpu.bs_fan_speed_base_min) \div 100,
                             wfail)
          IN Ret(wr.result, NoOut, wr.ec, wr.io)

gpu_realtime_temperature_show(regs, c, rfail) ==
  RawByteShow(regs, c.gpu.rt_temp_address, rfail)

gpu_realtime_fan_speed_show(regs, c, rfail) ==
  RawByteShow(regs, c.gpu.rt_fan_speed_address, rfail)

\* 256 reads in address order, stopping at the first failure
ec_dump_show(regs, failAt) ==
  LET rd == ec_read_seq(regs, 0, 256, failAt)
  IN IF rd.result # "OK" THEN Ret(rd.result, NoOut, regs, rd.io)
     ELSE Ret("OK", Out("dump", -1), regs, rd.io)

HexValue(d) ==
  LET f[i \in 0..Len(d)] == IF i = 0 THEN 0 ELSE 16 * f[i - 1] + d[i]
  IN f[Len(d)]

\* "xx=xx": the buffer holds the word "=" and the four hex digits
ec_set_store(regs, buf, wfail) ==
  IF Len(buf.digits) + 1 + buf.nl > 6 THEN Ret("EINVAL", NoOut, regs, <<>>)
  ELSE IF buf.word # "=" \/ Len(buf.digits) # 4 THEN Ret("EINVAL", NoOut, regs, <<>>)
  ELSE LET addr == HexValue(SubSeq(buf.digits, 1, 2))
           val == HexValue(SubSeq(buf.digits, 3, 4))
           wr == ec_write(regs, addr, val, wfail)
       IN Ret(wr.result, NoOut, wr.ec, [i \in DOMAIN wr.io |-> [wr.io[i] EXCEPT !.field = -1]])

\* "xx": the buffer holds two hex digits; addr is the new ec_get_addr
ec_get_store(buf, old) ==
  IF Len(buf.digits) + buf.nl > 3 THEN [result |-> "EINVAL", addr |-> old]
  ELSE IF buf.word # "" \/ Len(buf.digits) \notin {1, 2} THEN [result |-> "EINVAL", addr |-> old]
  ELSE [result |-> "OK", addr |-> HexValue(buf.digits)]

ec_get_show(regs, addr, rfail) ==
  LET rd == ec_read(regs, addr, rfail)
      io == [i \in DOMAIN rd.io |-> [rd.io[i] EXCEPT !.field = -1]]
  IN IF rd.result # "OK" THEN Ret(rd.result, NoOut, regs, io)
     ELSE Ret("OK", Out("", rd.val), regs, io)

micmute_led_sysfs_set(regs, c, brightness, rfail, wfail) ==
  LET sb == ec_set_bit(regs, c.leds.micmute_led_address, c.leds.bit, brightness # 0,
                       rfail, wfail)
  IN Ret(sb.result, NoOut, sb.ec, sb.io)

mute_led_sysfs_set(regs, c, brightness, rfail, wfail) ==
  LET sb == ec_set_bit(regs, c.leds.mute_led_address, c.leds.bit, brightness # 0,
                       rfail, wfail)
  IN Ret(sb.result, NoOut, sb.ec, sb.io)

\* a failed read is reported as brightness 0
kbd_bl_sysfs_get(regs, c, rfail) ==
  LET rd == ec_read(regs, c.kbd_bl.bl_state_address, rfail)
  IN IF rd.result # "OK" THEN Ret("OK", Out("", 0), regs, rd.io)
     ELSE Ret("OK", Out("", u8_and(rd.val, MSI_EC_KBD_BL_STATE_MASK)), regs, rd.io)

kbd_bl_sysfs_set(regs, c, brightness, unregistering, wfail) ==
  IF unregistering THEN Ret("OK", NoOut, regs, <<>>)
  ELSE IF brightness < 0 \/ brightness > 3 THEN Ret("EPERM", NoOut, regs, <<>>)
  ELSE LET wr == ec_write(regs, c.kbd_bl.bl_state_address,
                          u8_or(u8(c.kbd_bl.state_base_value), brightness), wfail)
       IN Ret(wr.result, NoOut, wr.ec, wr.io)

-----------------------------------------------------------------------------
(* Handler calls: sysfs and the LED core invoke a handler only through an    *)
(* attribute file or a classdev that exists                                  *)

\* buffers written to an attribute that takes one of two words
TwoWords(a, b) ==
  {Word(a, 0), Word(a, 1), Word(b, 0), Word(b, 1), Word(a, 2), Word("bogus", 0), NoBuf}

\* buffers written to battery_mode
PresetWords ==
  {Word("max", 0), Word("medium", 1), Word("min", 0), Word("min", 2), Word("eco", 0), NoBuf}

\* buffers written to shift_mode and fan_mode
ModeWords ==
  {Word("eco", 0), Word("comfort", 1), Word("sport", 0), Word("turbo", 0),
   Word("auto", 0), Word("silent", 1), Word("basic", 0), Word("advanced", 0),
   Word("sport", 2), Word("Sport", 0), NoBuf}

\* buffers written to a numeric attribute
DecInputs ==
  {Digits(<<0>>, 0), Digits(<<1, 0>>, 1), Digits(<<6, 0>>, 0), Digits(<<9, 0>>, 0),
   Digits(<<1, 0, 0>>, 0), Digits(<<1, 0, 1>>, 0), Digits(<<1, 1, 8>>, 0),
   Digits(<<2, 0, 0>>, 0), Digits(<<2, 5, 5>>, 0), Digits(<<2, 5, 6>>, 0),
   Digits(<<1, 0>>, 2), Word("ten", 0), NoBuf}

\* buffers written to debug/ec_set: "2c=01", "f3=83\n", and malformed ones
EcSetInputs ==
  {[word |-> "=", digits |-> <<2, 12, 0, 1>>, nl |-> 0],
   [word |-> "=", digits |-> <<15, 3, 8, 3>>, nl |-> 1],
   [word |-> "=", digits |-> <<15, 3, 8, 3>>, nl |-> 2],
   [word |-> "", digits |-> <<2, 12>>, nl |-> 0],
   Word("bogus", 0)}

\* buffers written to debug/ec_get
EcGetInputs ==
  {Digits(<<2, 12>>, 0), Digits(<<15, 3>>, 1), Digits(<<15, 3>>, 2), Word("bogus", 0)}

\* how the transport treats one read-modify-write: no failure, or a failed read,
\* or a failed write after a successful read
RmwFaults == {"none", "read", "write"}

\* brightness values the LED core may pass
Brightness == 0..4

Arg(n) == Digits(<<n>>, 0)

\* the attribute file attr exists and can be read or written
CanCall(attr) ==
  /\ state = "live"
  /\ nops < MaxOps
  /\ attr \in Exposed

\* the classdev led is registered with the LED core
CanCallLed(led) ==
  /\ state = "live"
  /\ nops < MaxOps
  /\ led \in registered

\* the effect of one handler call
Record(op, buf, r) ==
  /\ ec' = r.ec
  /\ last' = [op |-> op, arg |-> buf, result |-> r.result, out |-> r.out, io |-> r.io]
  /\ nops' = nops + 1
  /\ UNCHANGED <<firmware, debug, ec_fw, conf_loaded, conf, state, init_result,
                 registered, groups, battery_attrs, mutex, th, ec0>>

Call(op, buf, r) == Record(op, buf, r) /\ UNCHANGED ec_get_addr

ChargeControlStartThresholdShow ==
  /\ CanCall("charge_control_start_threshold")
  /\ \E rfail \in BOOLEAN :
       Call("charge_control_start_threshold_show", NoBuf,
            charge_control_threshold_show(ec, conf, conf.charge_control.offset_start, rfail))

ChargeControlStartThresholdStore ==
  /\ CanCall("charge_control_start_threshold")
  /\ \E buf \in DecInputs, wfail \in BOOLEAN :
       Call("charge_control_start_threshold_store", buf,
            charge_control_threshold_store(ec, conf, conf.charge_control.offset_start, buf,
                                           wfail))

ChargeControlEndThresholdShow ==
  /\ CanCall("charge_control_end_threshold")
  /\ \E rfail \in BOOLEAN :
       Call("charge_control_end_threshold_show", NoBuf,
            charge_control_threshold_show(ec, conf, conf.charge_control.offset_end, rfail))

ChargeControlEndThresholdStore ==
  /\ CanCall("charge_control_end_threshold")
  /\ \E buf \in DecInputs, wfail \in BOOLEAN :
       Call("charge_control_end_threshold_store", buf,
            charge_control_threshold_store(ec, conf, conf.charge_control.offset_end, buf,
                                           wfail))

WebcamShow ==
  /\ CanCall("webcam")
  /\ \E rfail \in BOOLEAN :
       Call("webcam_show", NoBuf,
            webcam_common_show(ec, conf, conf.webcam.address, "off", "on", rfail))

WebcamStore ==
  /\ CanCall("webcam")
  /\ \E buf \in TwoWords("on", "off"), fault \in RmwFaults :
       Call("webcam_store", buf,
            webcam_common_store(ec, conf, conf.webcam.address, buf, "off", "on",
                                fault = "read", fault = "write"))

WebcamBlockShow ==
  /\ CanCall("webcam_block")
  /\ \E rfail \in BOOLEAN :
       Call("webcam_block_show", NoBuf,
            webcam_common_show(ec, conf, conf.webcam.block_address, "on", "off", rfail))

WebcamBlockStore ==
  /\ CanCall("webcam_block")
  /\ \E buf \in TwoWords("on", "off"), fault \in RmwFaults :
       Call("webcam_block_store", buf,
            webcam_common_store(ec, conf, conf.webcam.block_address, buf, "on", "off",
                                fault = "read", fault = "write"))

FnKeyShow ==
  /\ CanCall("fn_key")
  /\ \E rfail, garbage \in BOOLEAN :
       Call("fn_key_show", NoBuf, fn_key_show(ec, conf, rfail, garbage))

FnKeyStore ==
  /\ CanCall("fn_key")
  /\ \E buf \in TwoWords("left", "right"), fault \in RmwFaults, uninit \in UninitResults :
       \* a call either reaches ec_set_bit or returns the uninitialised int, never both
       /\ fault = "none" \/ uninit = "OK"
       /\ Call("fn_key_store", buf,
               fn_key_store(ec, conf, buf, fault = "read", fault = "write", uninit))

WinKeyShow ==
  /\ CanCall("win_key")
  /\ \E rfail, garbage \in BOOLEAN :
       Call("win_key_show", NoBuf, win_key_show(ec, conf, rfail, garbage))

WinKeyStore ==
  /\ CanCall("win_key")
  /\ \E buf \in TwoWords("left", "right"), fault \in RmwFaults, uninit \in UninitResults :
       \* a call either reaches ec_set_bit or returns the uninitialised int, never both
       /\ fault = "none" \/ uninit = "OK"
       /\ Call("win_key_store", buf,
               win_key_store(ec, conf, buf, fault = "read", fault = "write", uninit))

BatteryModeShow ==
  /\ CanCall("battery_mode")
  /\ \E rfail \in BOOLEAN :
       Call("battery_mode_show", NoBuf, battery_mode_show(ec, conf, rfail))

BatteryModeStore ==
  /\ CanCall("battery_mode")
  /\ \E buf \in PresetWords, wfail \in BOOLEAN :
       Call("battery_mode_store", buf, battery_mode_store(ec, conf, buf, wfail))

CoolerBoostShow ==
  /\ CanCall("cooler_boost")
  /\ \E rfail, garbage \in BOOLEAN :
       Call("cooler_boost_show", NoBuf,
            cooler_boost_show(ec, conf, rfail, garbage))

CoolerBoostStore ==
  /\ CanCall("cooler_boost")
  /\ \E buf \in TwoWords("on", "off"), fault \in RmwFaults :
       Call("cooler_boost_store", buf,
            cooler_boost_store(ec, conf, buf, fault = "read", fault = "write"))

AvailableShiftModesShow ==
  /\ CanCall("available_shift_modes")
  /\ Call("available_shift_modes_show", NoBuf,
        available_shift_modes_show(ec, conf))

ShiftModeShow ==
  /\ CanCall("shift_mode")
  /\ \E rfail \in BOOLEAN :
       Call("shift_mode_show", NoBuf, shift_mode_show(ec, conf, rfail))

ShiftModeStore ==
  /\ CanCall("shift_mode")
  /\ \E buf \in ModeWords, wfail \in BOOLEAN :
       Call("shift_mode_store", buf, shift_mode_store(ec, conf, buf, wfail))

SuperBatteryShow ==
  /\ CanCall("super_battery")
  /\ \E rfail, garbage \in BOOLEAN :
       Call("super_battery_show", NoBuf,
            super_battery_show(ec, conf, rfail, garbage))

SuperBatteryStore ==
  /\ CanCall("super_battery")
  /\ \E buf \in TwoWords("on", "off"), fault \in RmwFaults :
       Call("super_battery_store", buf,
            super_battery_store(ec, conf, buf, fault = "read", fault = "write"))

AvailableFanModesShow ==
  /\ CanCall("available_fan_modes")
  /\ Call("available_fan_modes_show", NoBuf,
        available_fan_modes_show(ec, conf))

FanModeShow ==
  /\ CanCall("fan_mode")
  /\ \E rfail \in BOOLEAN :
       Call("fan_mode_show", NoBuf, fan_mode_show(ec, conf, rfail))

FanModeStore ==
  /\ CanCall("fan_mode")
  /\ \E buf \in ModeWords, wfail \in BOOLEAN :
       Call("fan_mode_store", buf, fan_mode_store(ec, conf, buf, wfail))

FwVersionShow ==
  /\ CanCall("fw_version")
  /\ \E failAt \in FwFailAt :
       Call("fw_version_show", NoBuf, fw_version_show(ec, failAt))

FwReleaseDateShow ==
  /\ CanCall("fw_release_date")
  /\ \E dateFailAt \in {0, MSI_EC_FW_DATE_LENGTH}, timeFailAt \in {3, MSI_EC_FW_TIME_LENGTH} :
       Call("fw_release_date_show", NoBuf,
            fw_release_date_show(ec, dateFailAt, timeFailAt))

CpuRealtimeTemperatureShow ==
  /\ CanCall("cpu_realtime_temperature")
  /\ \E rfail \in BOOLEAN :
       Call("cpu_realtime_temperature_show", NoBuf,
            cpu_realtime_temperature_show(ec, conf, rfail))

CpuRealtimeFanSpeedShow ==
  /\ CanCall("cpu_realtime_fan_speed")
  /\ \E rfail \in BOOLEAN :
       Call("cpu_realtime_fan_speed_show", NoBuf,
            cpu_realtime_fan_speed_show(ec, conf, rfail))

CpuBasicFanSpeedShow ==
  /\ CanCall("cpu_basic_fan_speed")
  /\ \E rfail \in BOOLEAN :
       Call("cpu_basic_fan_speed_show", NoBuf,
            cpu_basic_fan_speed_show(ec, conf, rfail))

CpuBasicFanSpeedStore ==
  /\ CanCall("cpu_basic_fan_speed")
  /\ \E buf \in DecInputs, wfail \in BOOLEAN :
       Call("cpu_basic_fan_speed_store", buf,
            cpu_basic_fan_speed_store(ec, conf, buf, wfail))

GpuRealtimeTemperatureShow ==
  /\ CanCall("gpu_realtime_temperature")
  /\ \E rfail \in BOOLEAN :
       Call("gpu_realtime_temperature_show", NoBuf,
            gpu_realtime_temperature_show(ec, conf, rfail))

GpuRealtimeFanSpeedShow ==
  /\ CanCall("gpu_realtime_fan_speed")
  /\ \E rfail \in BOOLEAN :
       Call("gpu_realtime_fan_speed_show", NoBuf,
            gpu_realtime_fan_speed_show(ec, conf, rfail))

EcDumpShow ==
  /\ CanCall("ec_dump")
  /\ \E failAt \in {0, 17, 256} :
       Call("ec_dump_show", NoBuf, ec_dump_show(ec, failAt))

EcSetStore ==
  /\ CanCall("ec_set")
  /\ \E buf \in EcSetInputs, wfail \in BOOLEAN :
       Call("ec_set_store", buf, ec_set_store(ec, buf, wfail))

EcGetStore ==
  /\ CanCall("ec_get")
  /\ \E buf \in EcGetInputs :
       LET r == ec_get_store(buf, ec_get_addr)
       IN /\ Record("ec_get_store", buf, Ret(r.result, NoOut, ec, <<>>))
          /\ ec_get_addr' = r.addr

EcGetShow ==
  /\ CanCall("ec_get")
  /\ \E rfail \in BOOLEAN :
       Call("ec_get_show", NoBuf, ec_get_show(ec, ec_get_addr, rfail))

MicmuteLedSet ==
  /\ CanCallLed("micmute_led_cdev")
  /\ \E b \in 0..1, fault \in RmwFaults :
       Call("micmute_led_sysfs_set", Arg(b),
               micmute_led_sysfs_set(ec, conf, b, fault = "read", fault = "write"))

MuteLedSet ==
  /\ CanCallLed("mute_led_cdev")
  /\ \E b \in 0..1, fault \in RmwFaults :
       Call("mute_led_sysfs_set", Arg(b),
               mute_led_sysfs_set(ec, conf, b, fault = "read", fault = "write"))

KbdBlGet ==
  /\ CanCallLed("msiacpi_led_kbdlight")
  /\ \E rfail \in BOOLEAN :
       Call("kbd_bl_sysfs_get", NoBuf,
               kbd_bl_sysfs_get(ec, conf, rfail))

KbdBlSet ==
  /\ CanCallLed("msiacpi_led_kbdlight")
  /\ \E b \in Brightness, wfail \in BOOLEAN :
       Call("kbd_bl_sysfs_set", Arg(b),
               kbd_bl_sysfs_set(ec, conf, b, FALSE, wfail))

\* an unload that leaves the keyboard backlight classdev registered
msi_ec_exit_keeps_kbd_led(c, loaded) ==
  (IF loaded
     THEN (IF c.leds.micmute_led_address # MSI_EC_ADDR_UNSUPP
             THEN {"micmute_led_cdev"} ELSE {})
            \cup (IF c.leds.mute_led_address # MSI_EC_ADDR_UNSUPP
                    THEN {"mute_led_cdev"} ELSE {})
            \cup {"battery_hook"}
   ELSE {})
    \cup {"msi_platform_driver", "msi_platform_device"}

\* the kernel objects msi_ec_exit unregisters: the LED classdevs by their address,
\* the battery hook, the driver and the device
msi_ec_exit_unregisters(c, loaded) ==
  (IF loaded
     THEN (IF c.leds.micmute_led_address # MSI_EC_ADDR_UNSUPP
             THEN {"micmute_led_cdev"} ELSE {})
            \cup (IF c.leds.mute_led_address # MSI_EC_ADDR_UNSUPP
                    THEN {"mute_led_cdev"} ELSE {})
            \cup (IF c.kbd_bl.bl_state_address # MSI_EC_ADDR_UNSUPP
                    THEN {"msiacpi_led_kbdlight"} ELSE {})
            \cup {"battery_hook"}
   ELSE {})
    \cup {"msi_platform_driver", "msi_platform_device"}

\* msi_platform_remove: the attribute groups it removes
msi_platform_remove(dbg, loaded) ==
  (IF dbg THEN {"debug"} ELSE {}) \cup (IF loaded THEN msi_platform_groups ELSE {})

\* the one transport failure an unload may meet, in the setter of either LED
ExitFaults ==
  {<<"none", "none">>}
    \cup (IF "micmute_led_cdev" \in registered
            THEN {<<"read", "none">>, <<"write", "none">>} ELSE {})
    \cup (IF "mute_led_cdev" \in registered
            THEN {<<"none", "read">>, <<"none", "write">>} ELSE {})

\* msi_ec_exit: each LED it unregisters has its setter called with brightness 0 by the
\* LED core (the keyboard backlight's with LED_UNREGISTERING set), then the battery hook
\* goes, then the driver (msi_platform_remove) and the device
msi_ec_exit ==
  /\ state = "live"
  /\ \E f \in ExitFaults :
       LET r1 == IF conf_loaded /\ "micmute_led_cdev" \in registered
                   THEN micmute_led_sysfs_set(ec, conf, 0, f[1] = "read", f[1] = "write")
                   ELSE Ret("OK", NoOut, ec, <<>>)
           r2 == IF conf_loaded /\ "mute_led_cdev" \in registered
                   THEN mute_led_sysfs_set(r1.ec, conf, 0, f[2] = "read", f[2] = "write")
                   ELSE Ret("OK", NoOut, r1.ec, <<>>)
           r3 == IF conf_loaded /\ "msiacpi_led_kbdlight" \in registered
                   THEN kbd_bl_sysfs_set(r2.ec, conf, 0, TRUE, FALSE)
                   ELSE Ret("OK", NoOut, r2.ec, <<>>)
       IN /\ ec' = r3.ec
          /\ last' = [op |-> "msi_ec_exit", arg |-> NoBuf, result |-> "OK", out |-> NoOut,
                      io |-> r1.io \o r2.io \o r3.io]
  /\ state' = "exited"
  /\ registered' = registered \ msi_ec_exit_unregisters(conf, conf_loaded)
  /\ groups' = groups \ msi_platform_remove(debug, conf_loaded)
  /\ battery_attrs' = FALSE
  /\ UNCHANGED <<firmware, debug, ec_fw, conf_loaded, conf, init_result, ec_get_addr,
                 nops, mutex, th, ec0>>

Next ==
  \/ msi_ec_init
  \/ msi_battery_add
  \/ msi_battery_remove
  \/ ChargeControlStartThresholdShow
  \/ ChargeControlStartThresholdStore
  \/ ChargeControlEndThresholdShow
  \/ ChargeControlEndThresholdStore
  \/ WebcamShow
  \/ WebcamStore
  \/ WebcamBlockShow
  \/ WebcamBlockStore
  \/ FnKeyShow
  \/ FnKeyStore
  \/ WinKeyShow
  \/ WinKeyStore
  \/ BatteryModeShow
  \/ BatteryModeStore
  \/ CoolerBoostShow
  \/ CoolerBoostStore
  \/ AvailableShiftModesShow
  \/ ShiftModeShow
  \/ ShiftModeStore
  \/ SuperBatteryShow
  \/ SuperBatteryStore
  \/ AvailableFanModesShow
  \/ FanModeShow
  \/ FanModeStore
  \/ FwVersionShow
  \/ FwReleaseDateShow
  \/ CpuRealtimeTemperatureShow
  \/ CpuRealtimeFanSpeedShow
  \/ CpuBasicFanSpeedShow
  \/ CpuBasicFanSpeedStore
  \/ GpuRealtimeTemperatureShow
  \/ GpuRealtimeFanSpeedShow
  \/ EcDumpShow
  \/ EcSetStore
  \/ EcGetStore
  \/ EcGetShow
  \/ MicmuteLedSet
  \/ MuteLedSet
  \/ KbdBlGet
  \/ KbdBlSet
  \/ msi_ec_exit

Spec == Init /\ [][Next]_vars

-----------------------------------------------------------------------------
(* The read-modify-write primitives, step by step, with concurrent callers   *)

\* the register the concurrent calls target
TargetAddrs == {44, 235}

\* bytes the target register may hold before the calls
InitBytes == {0, 165}

\* masks passed to ec_set_by_mask / ec_unset_by_mask
MaskChoices == {1, 2, 12, 15, 240}

Threads == 1..NThreads

\* the mutex each primitive takes
MutexOf(op) ==
  CASE op = "ec_set_bit" -> "ec_set_bit_mutex"
    [] op = "ec_set_by_mask" -> "ec_set_by_mask_mutex"
    [] op = "ec_unset_by_mask" -> "ec_unset_by_mask_mutex"

\* the byte a call writes back, from the byte it read
NewByte(call) ==
  CASE call.op = "ec_set_bit" -> ec_set_bit_value(call.stored, call.arg, call.value)
    [] call.op = "ec_set_by_mask" -> ec_set_by_mask_value(call.stored, call.arg)
    [] call.op = "ec_unset_by_mask" -> ec_unset_by_mask_value(call.stored, call.arg)

\* ec_set_bit calls on one address, thread t on a higher bit than thread t-1
BitCalls ==
  {c \in [Threads -> [op : {"ec_set_bit"}, addr : TargetAddrs, arg : 0..7,
                      value : BOOLEAN, pc : {"lock"}, stored : {0}, result : {"OK"}]] :
     \A t \in Threads :
       /\ c[t].addr = c[1].addr
       /\ t > 1 => c[t].arg > c[t - 1].arg}

\* mask calls on one address with pairwise disjoint masks
MaskCalls ==
  {c \in [Threads -> [op : {"ec_set_by_mask", "ec_unset_by_mask"}, addr : TargetAddrs,
                      arg : MaskChoices, value : {TRUE}, pc : {"lock"}, stored : {0},
                      result : {"OK"}]] :
     \A t \in Threads :
       /\ c[t].addr = c[1].addr
       /\ \A u \in Threads : u # t => u8_and(c[t].arg, c[u].arg) = 0}

\* a loaded module (profile CONF0) whose handlers are entered by NThreads callers at once
InitRmw ==
  /\ debug = FALSE
  /\ firmware = <<>>
  /\ ec_fw = "14C1EMS1.012"
  /\ \E v \in InitBytes : ec = [a \in 0..255 |-> v]
  /\ ec0 = ec
  /\ conf_loaded = TRUE
  /\ conf = CopyProfile(1)
  /\ state = "live"
  /\ init_result = "OK"
  /\ registered = {"msi_platform_driver", "msi_platform_device", "battery_hook"}
                    \cup LedsOf(CopyProfile(1))
  /\ groups = msi_platform_groups
  /\ battery_attrs = FALSE
  /\ ec_get_addr = 0
  /\ last = [op |-> "msi_ec_init", arg |-> NoBuf, result |-> "OK", out |-> NoOut,
             io |-> <<>>]
  /\ nops = 0
  /\ mutex = [m \in Mutexes |-> 0]
  /\ th \in BitCalls \cup MaskCalls

RmwUnchanged ==
  UNCHANGED <<firmware, debug, ec_fw, conf_loaded, conf, state, init_result, registered,
              groups, battery_attrs, ec_get_addr, last, nops, ec0>>

\* a lock that never waits: what ec_set_bit would be without its mutex
mutex_lock_never_waits(t, m) == mutex' = [mutex EXCEPT ![m] = t]

\* mutex_lock(&m): proceeds only when m is free
mutex_lock(t, m) ==
  /\ mutex[m] = 0
  /\ mutex' = [mutex EXCEPT ![m] = t]

\* mutex_unlock(&m)
mutex_unlock(t, m) == mutex' = [mutex EXCEPT ![m] = 0]

RmwLock(t) ==
  /\ th[t].pc = "lock"
  /\ mutex_lock(t, MutexOf(th[t].op))
  /\ th' = [th EXCEPT ![t].pc = "read"]
  /\ UNCHANGED ec
  /\ RmwUnchanged

\* a read step that returns on a failed read without passing through unlock
RmwRead_returns_locked(t) ==
  /\ th[t].pc = "read"
  /\ \E rfail \in BOOLEAN :
       LET rd == ec_read(ec, th[t].addr, rfail)
       IN th' = [th EXCEPT ![t].pc = IF rd.result = "OK" THEN "write" ELSE "done",
                           ![t].stored = IF rd.result = "OK" THEN rd.val ELSE @,
                           ![t].result = rd.result]
  /\ UNCHANGED <<ec, mutex>>
  /\ RmwUnchanged

\* result = ec_read(addr, &stored); if (result < 0) goto unlock;
RmwRead(t) ==
  /\ th[t].pc = "read"
  /\ \E rfail \in BOOLEAN :
       LET rd == ec_read(ec, th[t].addr, rfail)
       IN th' = [th EXCEPT ![t].pc = IF rd.result = "OK" THEN "write" ELSE "unlock",
                           ![t].stored = IF rd.result = "OK" THEN rd.val ELSE @,
                           ![t].result = rd.result]
  /\ UNCHANGED <<ec, mutex>>
  /\ RmwUnchanged

\* the local update of stored, then result = ec_write(addr, stored)
RmwWrite(t) ==
  /\ th[t].pc = "write"
  /\ \E wfail \in BOOLEAN :
       LET wr == ec_write(ec, th[t].addr, NewByte(th[t]), wfail)
       IN /\ ec' = wr.ec
          /\ th' = [th EXCEPT ![t].pc = "unlock", ![t].result = wr.result]
  /\ UNCHANGED mutex
  /\ RmwUnchanged

\* unlock: mutex_unlock(&m); return result;
RmwUnlock(t) ==
  /\ th[t].pc = "unlock"
  /\ mutex_unlock(t, MutexOf(th[t].op))
  /\ th' = [th EXCEPT ![t].pc = "done"]
  /\ UNCHANGED ec
  /\ RmwUnchanged

NextRmw ==
  \/ \E t \in DOMAIN th : RmwLock(t)
  \/ \E t \in DOMAIN th : RmwRead(t)
  \/ \E t \in DOMAIN th : RmwWrite(t)
  \/ \E t \in DOMAIN th : RmwUnlock(t)

SpecRmw == InitRmw /\ [][NextRmw]_vars

-----------------------------------------------------------------------------
(* Properties of the register access layer under concurrent callers          *)

\* every caller has returned, and none met a transport failure
AllCallsReturnedOk ==
  /\ th # <<>>
  /\ \A t \in DOMAIN th : th[t].pc = "done" /\ th[t].result = "OK"

AllBitCalls == th # <<>> /\ \A t \in DOMAIN th : th[t].op = "ec_set_bit"

\* the byte asked for by the ec_set_bit calls: a targeted bit as its call asked,
\* an untargeted bit as it was in v0
IntendedByte(v0) ==
  LET bit(b) ==
        IF \E t \in DOMAIN th : th[t].arg = b
          THEN IF \E t \in DOMAIN th : th[t].arg = b /\ th[t].value THEN 1 ELSE 0
        ELSE BitAt(v0, b)
      f[i \in 0..8] == IF i = 8 THEN 0 ELSE bit(i) * (2 ^ i) + f[i + 1]
  IN f[0]

\* C1: once concurrent ec_set_bit calls on distinct bits of one register have all
\* returned without a transport failure, whatever the interleaving of their steps,
\* the register holds its initial value with every targeted bit set or cleared as
\* asked and every other bit unchanged, and no other register has changed.
C1_NoLostBitUpdate ==
  (AllBitCalls /\ AllCallsReturnedOk) =>
    ec = [ec0 EXCEPT ![th[1].addr] = IntendedByte(ec0[th[1].addr])]

\* two ec_set_bit calls have returned and each changed its bit
C1_Witness ==
  /\ AllBitCalls
  /\ AllCallsReturnedOk
  /\ Len(th) >= 2
  /\ \A t \in DOMAIN th :
       BitAt(ec[th[t].addr], th[t].arg) # BitAt(ec0[th[t].addr], th[t].arg)

\* a set-mask call and an unset-mask call (disjoint masks, one address) have returned
MaskPairReturnedOk ==
  /\ AllCallsReturnedOk
  /\ \E t \in DOMAIN th : th[t].op = "ec_set_by_mask"
  /\ \E t \in DOMAIN th : th[t].op = "ec_unset_by_mask"

\* C2: when ec_set_by_mask(addr, m1) and ec_unset_by_mask(addr, m2) with disjoint
\* masks run concurrently on one address and both return without a transport failure,
\* the register has every bit of m1 set and every bit of m2 cleared.
C2_MaskCallsSerialised ==
  MaskPairReturnedOk =>
    \A t \in DOMAIN th :
      IF th[t].op = "ec_set_by_mask"
        THEN u8_and(ec[th[t].addr], th[t].arg) = th[t].arg
      ELSE u8_and(ec[th[t].addr], th[t].arg) = 0

-----------------------------------------------------------------------------
(* Properties of the configuration resolver and of module load               *)

\* the identifier load_configuration resolves
ResolvedIdentifier == IF firmware = <<>> THEN ec_fw ELSE firmware[1]

\* the module has been loaded and the identifier was available: given as a
\* parameter, or read from the EC without a transport failure
IdentifierAvailable ==
  /\ state # "unloaded"
  /\ firmware # <<>> \/ init_result # "EIO"

\* the catalog profiles whose allow-list holds the identifier
MatchingProfiles ==
  {i \in DOMAIN CONFIGURATIONS :
     \E k \in DOMAIN CONFIGURATIONS[i].allowed_fw :
       CONFIGURATIONS[i].allowed_fw[k] = ResolvedIdentifier}

\* the feature fields of a profile: everything but the allow-list pointer
FeatureFields == DOMAIN ZeroConf \ {"allowed_fw"}

\* C3: when the identifier equals an entry of some profile's allow-list,
\* load_configuration succeeds and the active configuration holds the feature
\* fields of the first such profile in declaration order, and of no other.
C3_FirstMatchingProfileLoaded ==
  (IdentifierAvailable /\ MatchingProfiles # {}) =>
    /\ init_result \notin {"EIO", "EOPNOTSUPP"}
    /\ conf_loaded
    /\ \E i \in MatchingProfiles :
         /\ \A j \in MatchingProfiles : i <= j
         /\ \A f \in FeatureFields : conf[f] = CONFIGURATIONS[i][f]

\* a live module whose identifier selected a profile from the middle of the catalog
C3_Witness ==
  /\ state = "live"
  /\ conf_loaded
  /\ firmware = <<"16S6EMS1.111">>
  /\ MatchingProfiles = {12}
  /\ conf.webcam = CONFIGURATIONS[12].webcam

\* C4: when the identifier matches no profile and debug is off, the load fails with
\* the unsupported-firmware error and nothing is registered: no driver, device,
\* attribute group, battery hook or LED; when debug is on, load_configuration
\* succeeds and the configuration stays unloaded.
C4_NoMatchStopsLoadUnlessDebug ==
  (IdentifierAvailable /\ MatchingProfiles = {}) =>
    IF debug
      THEN init_result \notin {"EIO", "EOPNOTSUPP"} /\ ~conf_loaded /\ conf = ZeroConf
    ELSE /\ init_result = "EOPNOTSUPP"
         /\ state = "failed"
         /\ ~conf_loaded
         /\ registered = {}
         /\ groups = {}
         /\ ~battery_attrs
         /\ Exposed = {}

\* a load that stopped on a firmware of no profile, debug off
C4_Witness ==
  /\ ~debug
  /\ firmware = <<"16S6EMS1.11">>
  /\ MatchingProfiles = {}
  /\ state = "failed"
  /\ init_result = "EOPNOTSUPP"

IdentifierReadFailed ==
  /\ last.op = "msi_ec_init"
  /\ firmware = <<>>
  /\ \E i \in DOMAIN last.io : last.io[i].kind = "r" /\ ~last.io[i].ok

\* C6: without a firmware parameter, a transport failure while reading the identifier
\* makes the load fail with the I/O error, not the unsupported-firmware error,
\* whatever the debug flag, and no profile is loaded.
C6_IdentifierReadFailureIsFatal ==
  IdentifierReadFailed =>
    /\ init_result = "EIO"
    /\ last.result = "EIO"
    /\ state = "failed"
    /\ ~conf_loaded
    /\ conf = ZeroConf
    /\ registered = {}
    /\ groups = {}

\* the identifier read failed in debug mode
C6_Witness ==
  /\ IdentifierReadFailed
  /\ debug
  /\ init_result = "EIO"

-----------------------------------------------------------------------------
(* Properties of the capability gate and of the attribute handlers           *)

\* the attribute file or LED classdev each handler belongs to
HandlerControl ==
  [charge_control_start_threshold_show |-> "charge_control_start_threshold",
   charge_control_start_threshold_store |-> "charge_control_start_threshold",
   charge_control_end_threshold_show |-> "charge_control_end_threshold",
   charge_control_end_threshold_store |-> "charge_control_end_threshold",
   webcam_show |-> "webcam", webcam_store |-> "webcam",
   webcam_block_show |-> "webcam_block", webcam_block_store |-> "webcam_block",
   fn_key_show |-> "fn_key", fn_key_store |-> "fn_key",
   win_key_show |-> "win_key", win_key_store |-> "win_key",
   battery_mode_show |-> "battery_mode", battery_mode_store |-> "battery_mode",
   cooler_boost_show |-> "cooler_boost", cooler_boost_store |-> "cooler_boost",
   available_shift_modes_show |-> "available_shift_modes",
   shift_mode_show |-> "shift_mode", shift_mode_store |-> "shift_mode",
   super_battery_show |-> "super_battery", super_battery_store |-> "super_battery",
   available_fan_modes_show |-> "available_fan_modes",
   fan_mode_show |-> "fan_mode", fan_mode_store |-> "fan_mode",
   cpu_realtime_temperature_show |-> "cpu_realtime_temperature",
   cpu_realtime_fan_speed_show |-> "cpu_realtime_fan_speed",
   cpu_basic_fan_speed_show |-> "cpu_basic_fan_speed",
   cpu_basic_fan_speed_store |-> "cpu_basic_fan_speed",
   gpu_realtime_temperature_show |-> "gpu_realtime_temperature",
   gpu_realtime_fan_speed_show |-> "gpu_realtime_fan_speed",
   micmute_led_sysfs_set |-> "micmute_led_cdev",
   mute_led_sysfs_set |-> "mute_led_cdev",
   kbd_bl_sysfs_get |-> "msiacpi_led_kbdlight",
   kbd_bl_sysfs_set |-> "msiacpi_led_kbdlight"]

\* the primary address of the feature behind each attribute file or LED classdev
PrimaryAddress(c) ==
  [charge_control_start_threshold |-> c.charge_control.address,
   charge_control_end_threshold |-> c.charge_control.address,
   battery_mode |-> c.charge_control.address,
   webcam |-> c.webcam.address,
   webcam_block |-> c.webcam.block_address,
   fn_key |-> c.fn_win_swap.address,
   win_key |-> c.fn_win_swap.address,
   cooler_boost |-> c.cooler_boost.address,
   available_shift_modes |-> c.shift_mode.address,
   shift_mode |-> c.shift_mode.address,
   super_battery |-> c.super_battery.address,
   available_fan_modes |-> c.fan_mode.address,
   fan_mode |-> c.fan_mode.address,
   cpu_realtime_temperature |-> c.cpu.rt_temp_address,
   cpu_realtime_fan_speed |-> c.cpu.rt_fan_speed_address,
   cpu_basic_fan_speed |-> c.cpu.bs_fan_speed_address,
   gpu_realtime_temperature |-> c.gpu.rt_temp_address,
   gpu_realtime_fan_speed |-> c.gpu.rt_fan_speed_address,
   micmute_led_cdev |-> c.leds.micmute_led_address,
   mute_led_cdev |-> c.leds.mute_led_address,
   msiacpi_led_kbdlight |-> c.kbd_bl.bl_state_address]

FeatureControls == DOMAIN PrimaryAddress(ZeroConf)

\* the last step was a call of a feature handler
FeatureHandlerCalled == state = "live" /\ last.op \in DOMAIN HandlerControl

\* C7: a feature of the active profile whose primary address is Unsupported has no
\* attribute file and no registered LED classdev, battery threshold attributes
\* included, and no handler of it is ever invoked; no catalog profile marks the
\* charge-control address Unsupported.
C7_UnsupportedFeatureHidden ==
  /\ conf_loaded =>
       \A f \in FeatureControls :
         PrimaryAddress(conf)[f] = MSI_EC_ADDR_UNSUPP =>
           /\ f \notin Exposed
           /\ f \notin registered
           /\ FeatureHandlerCalled => HandlerControl[last.op] # f
  /\ \A i \in DOMAIN CONFIGURATIONS :
       CONFIGURATIONS[i].charge_control.address # MSI_EC_ADDR_UNSUPP

\* a live module whose profile marks the webcam, the key swap and an LED Unsupported,
\* with its other attributes and LEDs in place and one of them just used
C7_Witness ==
  /\ state = "live"
  /\ conf_loaded
  /\ \E f \in {"webcam", "fn_key", "super_battery", "cpu_realtime_fan_speed"} :
       PrimaryAddress(conf)[f] = MSI_EC_ADDR_UNSUPP /\ f \notin Exposed
  /\ "cooler_boost" \in Exposed
  /\ battery_attrs
  /\ FeatureHandlerCalled

\* handlers that read the feature's register on every call
RegisterShows ==
  {"webcam_show", "webcam_block_show", "fn_key_show", "win_key_show", "battery_mode_show",
   "cooler_boost_show", "shift_mode_show", "super_battery_show", "fan_mode_show",
   "cpu_realtime_temperature_show", "cpu_realtime_fan_speed_show",
   "cpu_basic_fan_speed_show", "gpu_realtime_temperature_show",
   "gpu_realtime_fan_speed_show"}

\* the attribute group each gated attribute file belongs to
GroupOfAttr(f) ==
  IF f \in {"cpu_realtime_temperature", "cpu_realtime_fan_speed", "cpu_basic_fan_speed"}
    THEN "cpu"
  ELSE IF f \in {"gpu_realtime_temperature", "gpu_realtime_fan_speed"} THEN "gpu"
  ELSE "root"

GatedAttrs ==
  FeatureControls \ {"charge_control_start_threshold", "charge_control_end_threshold",
                     "micmute_led_cdev", "mute_led_cdev", "msiacpi_led_kbdlight"}

AddressFieldsUsed == {last.io[i].field : i \in DOMAIN last.io}

\* C9 as stated: no register read or write is issued with a profile address field
\* that holds the Unsupported or the Unknown sentinel.
C9_NoSentinelIo ==
  AddressFieldsUsed \cap {MSI_EC_ADDR_UNSUPP, MSI_EC_ADDR_UNKNOWN} = {}

\* C9: no register read or write is issued with a profile address field that holds
\* the Unsupported sentinel; a field that holds the Unknown sentinel is used.
C9_NoUnsupportedIo == MSI_EC_ADDR_UNSUPP \notin AddressFieldsUsed

\* a profile with an Unsupported LED address and an Unknown feature address,
\* whose Unknown feature has just been accessed
C9_Witness ==
  /\ state = "live"
  /\ conf_loaded
  /\ \E f \in FeatureControls : PrimaryAddress(conf)[f] = MSI_EC_ADDR_UNSUPP
  /\ MSI_EC_ADDR_UNKNOWN \in AddressFieldsUsed

-----------------------------------------------------------------------------
(* Store handlers and invalid input                                          *)

\* the store operations of the attribute files and of the keyboard backlight
StoreOps ==
  {"charge_control_start_threshold_store", "charge_control_end_threshold_store",
   "webcam_store", "webcam_block_store", "fn_key_store", "win_key_store",
   "battery_mode_store", "cooler_boost_store", "shift_mode_store", "super_battery_store",
   "fan_mode_store", "cpu_basic_fan_speed_store", "kbd_bl_sysfs_set"}

\* the buffer is one of the words, alone or followed by one newline
IsWordOf(buf, words) == buf.digits = <<>> /\ buf.word \in words /\ buf.nl <= 1

\* the buffer is a decimal number below 256, alone or followed by one newline
IsByteNumber(buf) ==
  /\ buf.word = ""
  /\ buf.digits # <<>>
  /\ \A i \in DOMAIN buf.digits : buf.digits[i] \in 0..9
  /\ buf.nl <= 1
  /\ DecValue(buf.digits) <= 255

\* the buffer is a percentage whose raw byte, percentage plus offset, is in the range
IsThreshold(buf, c, offset) ==
  /\ IsByteNumber(buf)
  /\ DecValue(buf.digits) + offset >= c.charge_control.range_min
  /\ DecValue(buf.digits) + offset <= c.charge_control.range_max

\* the names of a mode table
NamesOf(modes) == {modes[i].name : i \in DOMAIN modes}

\* the values each store operation accepts under profile c
ValidInput(op, c, buf) ==
  CASE op = "charge_control_start_threshold_store" ->
         IsThreshold(buf, c, c.charge_control.offset_start)
    [] op = "charge_control_end_threshold_store" ->
         IsThreshold(buf, c, c.charge_control.offset_end)
    [] op \in {"webcam_store", "webcam_block_store", "cooler_boost_store",
               "super_battery_store"} -> IsWordOf(buf, {"on", "off"})
    [] op \in {"fn_key_store", "win_key_store"} -> IsWordOf(buf, {"left", "right"})
    [] op = "battery_mode_store" -> IsWordOf(buf, {"max", "medium", "min"})
    [] op = "shift_mode_store" -> IsWordOf(buf, NamesOf(c.shift_mode.modes))
    [] op = "fan_mode_store" -> IsWordOf(buf, NamesOf(c.fan_mode.modes))
    [] op = "cpu_basic_fan_speed_store" ->
         IsByteNumber(buf) /\ DecValue(buf.digits) <= 100
    [] op = "kbd_bl_sysfs_set" -> buf.digits[1] \in 0..3

\* a step that is a store call with an input that is not valid for it
InvalidStoreStep ==
  /\ nops' = nops + 1
  /\ last'.op \in StoreOps
  /\ ~ValidInput(last'.op, conf, last'.arg)

\* C10: a store operation called with an input that is not a valid value for it
\* issues no register write and leaves the register file as it was.
C10_InvalidStoreWritesNothing ==
  [][InvalidStoreStep =>
       /\ ec' = ec
       /\ \A i \in DOMAIN last'.io : last'.io[i].kind # "w"]_vars

\* a charge threshold store of 200 has been rejected without any register access
C10_Witness ==
  /\ last.op = "charge_control_start_threshold_store"
  /\ last.arg = Digits(<<2, 0, 0>>, 0)
  /\ ~ValidInput(last.op, conf, last.arg)
  /\ last.result = "EINVAL"
  /\ last.io = <<>>
  /\ ec = ec0

-----------------------------------------------------------------------------
(* The attribute codec over the whole catalog: a loaded module whose handlers *)
(* are called in pairs, a store followed by shows, or a show followed by a   *)
(* store of what was shown                                                   *)

\* handler calls made in a row on one attribute
MaxCalls == 2

\* one identifier of every profile of the catalog
CatalogFirmware == {CONFIGURATIONS[i].allowed_fw[1] : i \in DOMAIN CONFIGURATIONS}

\* bytes the registers hold when a store comes first
EncodeFill == {0, 255}

\* bytes the registers hold when a show comes first
DecodeFill == 0..255

\* the decimal digits of n, as sysfs_emit("%i") prints them and as a caller types them
DecDigits(n) ==
  IF n < 10 THEN <<n>>
  ELSE IF n < 100 THEN <<n \div 10, n % 10>>
  ELSE <<n \div 100, (n \div 10) % 10, n % 10>>

\* every decimal number a u8 can hold, and inputs that are no such number
ByteInputs ==
  {Digits(DecDigits(n), 0) : n \in 0..255}
    \cup {Digits(<<2, 5, 6>>, 0), Digits(<<1, 0>>, 2), Word("ten", 0), NoBuf}

\* the module after a load with the firmware parameter naming a catalog profile,
\* the battery present, every register holding one byte of fill
Loaded(fill) ==
  /\ debug = FALSE
  /\ firmware \in {<<s>> : s \in CatalogFirmware}
  /\ ec_fw = "14C1EMS1.012"
  /\ \E v \in fill : ec = [a \in 0..255 |-> v]
  /\ ec0 = ec
  /\ conf_loaded = TRUE
  /\ conf = CopyProfile(FirstMatch(1, firmware[1]))
  /\ state = "live"
  /\ init_result = "OK"
  /\ registered = {"msi_platform_driver", "msi_platform_device", "battery_hook"}
                    \cup LedsOf(conf)
  /\ groups = msi_platform_groups
  /\ battery_attrs = TRUE
  /\ ec_get_addr = 0
  /\ last = [op |-> "msi_ec_init", arg |-> NoBuf, result |-> "OK", out |-> NoOut,
             io |-> <<>>]
  /\ nops = 0
  /\ mutex = [m \in Mutexes |-> 0]
  /\ th = <<>>

\* the show handler of the attribute each store handler writes
ShowOfStore ==
  [charge_control_start_threshold_store |-> "charge_control_start_threshold_show",
   charge_control_end_threshold_store |-> "charge_control_end_threshold_show",
   webcam_store |-> "webcam_show",
   webcam_block_store |-> "webcam_block_show",
   fn_key_store |-> "fn_key_show",
   win_key_store |-> "win_key_show",
   battery_mode_store |-> "battery_mode_show",
   cooler_boost_store |-> "cooler_boost_show",
   shift_mode_store |-> "shift_mode_show",
   super_battery_store |-> "super_battery_show",
   fan_mode_store |-> "fan_mode_show",
   cpu_basic_fan_speed_store |-> "cpu_basic_fan_speed_show"]

\* the buffers written to each attribute
StoreInputs(op) ==
  CASE op \in {"charge_control_start_threshold_store", "charge_control_end_threshold_store",
               "cpu_basic_fan_speed_store"} -> ByteInputs
    [] op \in {"fn_key_store", "win_key_store"} -> TwoWords("left", "right")
    [] op = "battery_mode_store" -> PresetWords
    [] op \in {"shift_mode_store", "fan_mode_store"} -> ModeWords
    [] OTHER -> TwoWords("on", "off")

\* DEVICE_ATTR_RW / DEVICE_ATTR_RO: the store callback behind each attribute file
StoreHandler(op, regs, c, buf, rfail, wfail, uninit) ==
  CASE op = "charge_control_start_threshold_store" ->
         charge_control_threshold_store(regs, c, c.charge_control.offset_start, buf, wfail)
    [] op = "charge_control_end_threshold_store" ->
         charge_control_threshold_store(regs, c, c.charge_control.offset_end, buf, wfail)
    [] op = "webcam_store" ->
         webcam_common_store(regs, c, c.webcam.address, buf, "off", "on", rfail, wfail)
    [] op = "webcam_block_store" ->
         webcam_common_store(regs, c, c.webcam.block_address, buf, "on", "off", rfail, wfail)
    [] op = "fn_key_store" -> fn_key_store(regs, c, buf, rfail, wfail, uninit)
    [] op = "win_key_store" -> win_key_store(regs, c, buf, rfail, wfail, uninit)
    [] op = "battery_mode_store" -> battery_mode_store(regs, c, buf, wfail)
    [] op = "cooler_boost_store" -> cooler_boost_store(regs, c, buf, rfail, wfail)
    [] op = "shift_mode_store" -> shift_mode_store(regs, c, buf, wfail)
    [] op = "super_battery_store" -> super_battery_store(regs, c, buf, rfail, wfail)
    [] op = "fan_mode_store" -> fan_mode_store(regs, c, buf, wfail)
    [] op = "cpu_basic_fan_speed_store" -> cpu_basic_fan_speed_store(regs, c, buf, wfail)

\* the show callback behind each attribute file
ShowHandler(op, regs, c, rfail, garbage) ==
  CASE op = "charge_control_start_threshold_show" ->
         charge_control_threshold_show(regs, c, c.charge_control.offset_start, rfail)
    [] op = "charge_control_end_threshold_show" ->
         charge_control_threshold_show(regs, c, c.charge_control.offset_end, rfail)
    [] op = "webcam_show" ->
         webcam_common_show(regs, c, c.webcam.address, "off", "on", rfail)
    [] op = "webcam_block_show" ->
         webcam_common_show(regs, c, c.webcam.block_address, "on", "off", rfail)
    [] op = "fn_key_show" -> fn_key_show(regs, c, rfail, garbage)
    [] op = "win_key_show" -> win_key_show(regs, c, rfail, garbage)
    [] op = "battery_mode_show" -> battery_mode_show(regs, c, rfail)
    [] op = "cooler_boost_show" -> cooler_boost_show(regs, c, rfail, garbage)
    [] op = "shift_mode_show" -> shift_mode_show(regs, c, rfail)
    [] op = "super_battery_show" -> super_battery_show(regs, c, rfail, garbage)
    [] op = "fan_mode_show" -> fan_mode_show(regs, c, rfail)
    [] op = "cpu_realtime_fan_speed_show" -> cpu_realtime_fan_speed_show(regs, c, rfail)
    [] op = "cpu_basic_fan_speed_show" -> cpu_basic_fan_speed_show(regs, c, rfail)
    [] op = "gpu_realtime_fan_speed_show" -> gpu_realtime_fan_speed_show(regs, c, rfail)

\* handlers whose outcome depends on an uninitialised variable
ReadsUninitialised ==
  {"fn_key_show", "win_key_show", "cooler_boost_show", "super_battery_show"}

\* handlers that go through a read-modify-write primitive
ReadModifyWrites ==
  {"webcam_store", "webcam_block_store", "fn_key_store", "win_key_store",
   "cooler_boost_store", "super_battery_store"}

\* a store is the first call made on the loaded module
StoreCall ==
  /\ state = "live"
  /\ nops = 0
  /\ \E op \in DOMAIN ShowOfStore :
       /\ HandlerControl[op] \in Exposed
       /\ \E buf \in StoreInputs(op), fault \in RmwFaults, uninit \in UninitResults :
            /\ fault = "read" => op \in ReadModifyWrites
            /\ uninit = "OK" \/ (op \in {"fn_key_store", "win_key_store"} /\ fault = "none")
            /\ Call(op, buf,
                    StoreHandler(op, ec, conf, buf, fault = "read", fault = "write", uninit))

\* the attribute just stored to, or just shown, is read
ShowBack ==
  /\ state = "live"
  /\ nops >= 1
  /\ nops < MaxCalls
  /\ last.result = "OK"
  /\ \E op \in {ShowOfStore[s] : s \in DOMAIN ShowOfStore} :
       /\ last.op = op \/ (last.op \in DOMAIN ShowOfStore /\ ShowOfStore[last.op] = op)
       /\ \E rfail, garbage \in BOOLEAN :
            /\ garbage => op \in ReadsUninitialised /\ rfail
            /\ Call(op, NoBuf, ShowHandler(op, ec, conf, rfail, garbage))

InitEncode == Loaded(EncodeFill)

NextEncode ==
  \/ StoreCall
  \/ ShowBack

SpecEncode == InitEncode /\ [][NextEncode]_vars

\* the shows of SpecDecode: the mode tables, the thresholds and the fan speeds
DecodeShows ==
  {"charge_control_start_threshold_show", "charge_control_end_threshold_show",
   "shift_mode_show", "fan_mode_show", "cpu_realtime_fan_speed_show",
   "cpu_basic_fan_speed_show", "gpu_realtime_fan_speed_show"}

\* a show is the first call made on the loaded module
ShowCall ==
  /\ state = "live"
  /\ nops = 0
  /\ \E op \in DecodeShows :
       /\ HandlerControl[op] \in Exposed
       /\ \E rfail \in BOOLEAN :
            Call(op, NoBuf, ShowHandler(op, ec, conf, rfail, FALSE))

\* what a caller writes when it writes back what a show printed
Shown(out) ==
  IF out.text # "" THEN Word(out.text, 1)
  ELSE IF out.num >= 0 THEN Digits(DecDigits(out.num), 1)
  ELSE Word("-", 1)

\* the value just shown is written back to the same attribute
StoreBack ==
  /\ state = "live"
  /\ nops >= 1
  /\ nops < MaxCalls
  /\ last.result = "OK"
  /\ \E op \in DOMAIN ShowOfStore :
       /\ ShowOfStore[op] = last.op
       /\ \E wfail \in BOOLEAN :
            Call(op, Shown(last.out),
                 StoreHandler(op, ec, conf, Shown(last.out), FALSE, wfail, "OK"))

InitDecode == Loaded(DecodeFill)

NextDecode ==
  \/ ShowCall
  \/ StoreBack

SpecDecode == InitDecode /\ [][NextDecode]_vars

-----------------------------------------------------------------------------
(* Error reporting of the handlers                                           *)

\* the store operations of the attribute files
SysfsStoreOps == StoreOps \ {"kbd_bl_sysfs_set"}

\* the last step was a store call with an input that is not valid for it
InvalidStoreCalled ==
  /\ state = "live"
  /\ last.op \in SysfsStoreOps
  /\ ~ValidInput(last.op, conf, last.arg)

\* C11: every store operation reports a malformed or out-of-range input as a
\* validation error, never as success and never as an I/O error; this includes
\* fn_key and win_key given a word other than left/right and battery_mode,
\* cooler_boost and super_battery given an unrecognised word.
C11_InvalidStoreReportsValidationError ==
  InvalidStoreCalled => last.result \in {"EINVAL", "ERANGE"}

\* a register access of the last step was failed by the transport
TransportFailed == \E i \in DOMAIN last.io : ~last.io[i].ok

\* the last step was a call of a show or store handler
HandlerCalled == state = "live" /\ last.op \notin {"none", "msi_ec_init", "msi_ec_exit"}

\* C12: whenever the transport fails a read or write during a show or store
\* operation, the operation returns the transport's I/O error and reports no value;
\* this includes the fn_key, win_key, cooler_boost and super_battery shows and the
\* keyboard-backlight brightness read.
C12_TransportFailureReported ==
  (HandlerCalled /\ TransportFailed) => (last.result = "EIO" /\ last.out = NoOut)

-----------------------------------------------------------------------------
(* Round trips of the attribute codec                                        *)

\* the stores of the bit features
BitStores ==
  {"fn_key_store", "win_key_store", "webcam_store", "webcam_block_store",
   "cooler_boost_store"}

\* the call recorded in r met no transport failure
NoTransportFailure(r) == \A i \in DOMAIN r.io : r.io[i].ok

\* this step is a show of the attribute that the previous call stored to
ShowAfterStore ==
  /\ last.op \in DOMAIN ShowOfStore
  /\ nops' = nops + 1
  /\ last'.op = ShowOfStore[last.op]

\* C13: for every bit feature of every catalog profile, whatever its invert flag,
\* a store of one of its two words that met no transport failure, followed directly
\* by a show that met none, shows the word that was stored (fn_key, win_key, webcam,
\* webcam_block, cooler_boost).
C13_BitStoreThenShow ==
  [][(/\ ShowAfterStore
      /\ last.op \in BitStores
      /\ ValidInput(last.op, conf, last.arg)
      /\ NoTransportFailure(last)
      /\ NoTransportFailure(last'))
       => /\ last.result = "OK"
          /\ last'.result = "OK"
          /\ last'.out = Out(last.arg.word, -1)]_vars

\* fn_key of a profile with invert set was stored as "right", which changed the
\* register, and then shown as "right"
C13_Witness ==
  /\ nops = 2
  /\ last.op = "fn_key_show"
  /\ conf.fn_win_swap.invert
  /\ NoTransportFailure(last)
  /\ last.out = Out("right", -1)
  /\ ec[conf.fn_win_swap.address % 256] # ec0[conf.fn_win_swap.address % 256]

\* the last call was a show of a mode attribute whose register read succeeded
ModeShown ==
  /\ nops >= 1
  /\ last.op \in {"shift_mode_show", "fan_mode_show"}
  /\ NoTransportFailure(last)

\* the mode table the last show decoded with
ShownTable ==
  IF last.op = "shift_mode_show" THEN conf.shift_mode.modes ELSE conf.fan_mode.modes

TablesWithSharedValue ==
  {<<i, t>> \in (DOMAIN CONFIGURATIONS) \X {"shift_mode", "fan_mode"} :
     \E j, k \in DOMAIN CONFIGURATIONS[i][t].modes :
       j # k /\ CONFIGURATIONS[i][t].modes[j].value = CONFIGURATIONS[i][t].modes[k].value}

C15_FanSpeedStoreThenShow ==
  [][(/\ ShowAfterStore
      /\ last.op = "cpu_basic_fan_speed_store"
      /\ ValidInput(last.op, conf, last.arg)
      /\ NoTransportFailure(last)
      /\ NoTransportFailure(last'))
       => /\ last.result = "OK"
          /\ last'.result = "OK"
          /\ last'.out = Out("", DecValue(last.arg.digits))]_vars

ThresholdShows ==
  {"charge_control_start_threshold_show", "charge_control_end_threshold_show"}

ThresholdStores ==
  {"charge_control_start_threshold_store", "charge_control_end_threshold_store"}

\* the offset of the threshold a handler works on
OffsetOf(op, c) ==
  IF op \in {"charge_control_start_threshold_show", "charge_control_start_threshold_store"}
    THEN c.charge_control.offset_start
  ELSE c.charge_control.offset_end

\* this step writes back, to the same threshold, what the previous call showed for a
\* raw byte within the range
ThresholdWrittenBack ==
  /\ last.op \in ThresholdShows
  /\ NoTransportFailure(last)
  /\ last.io[1].val >= conf.charge_control.range_min
  /\ last.io[1].val <= conf.charge_control.range_max
  /\ nops' = nops + 1
  /\ last'.op \in ThresholdStores
  /\ ShowOfStore[last'.op] = last.op
  /\ last'.arg = Shown(last.out)

\* C16: for the charge threshold of every catalog profile and both offsets, when a
\* show reads a raw byte in [range_min, range_max] and the percentage shown is stored
\* back through the same threshold, the store is accepted and issues one write, of
\* that same raw byte, to the threshold address; a register holding 0x94 shows 10
\* with offset 0x8a, and storing 10 writes 0x94.
C16_ThresholdShowThenStore ==
  [][ThresholdWrittenBack =>
       /\ last.result = "OK"
       /\ (last.io[1].val = 148 /\ OffsetOf(last.op, conf) = 138) => last.out.num = 10
       /\ Len(last'.io) = 1
       /\ last'.io[1].kind = "w"
       /\ last'.io[1].field = conf.charge_control.address
       /\ last'.io[1].val = last.io[1].val
       /\ last'.io[1].ok => (last'.result = "OK" /\ ec'[last'.io[1].addr] = last.io[1].val)]_vars

\* a start threshold with offset 0x8a was shown as 10 from the raw byte 0x94, and
\* the store of 10 wrote 0x94 back
C16_Witness ==
  /\ nops = 2
  /\ last.op = "charge_control_start_threshold_store"
  /\ conf.charge_control.offset_start = 138
  /\ last.arg = Digits(<<1, 0>>, 1)
  /\ last.result = "OK"
  /\ last.io = <<IoWrite(conf.charge_control.address, conf.charge_control.address, 148,
                         TRUE)>>
  /\ ec0[conf.charge_control.address] = 148

\* the last call was a threshold store of a decimal number p in 0..255 whose true sum
\* with the offset lies outside [range_min, range_max]
SumOutOfRangeStored ==
  /\ nops >= 1
  /\ last.op \in ThresholdStores
  /\ IsByteNumber(last.arg)
  /\ \/ DecValue(last.arg.digits) + OffsetOf(last.op, conf) < conf.charge_control.range_min
     \/ DecValue(last.arg.digits) + OffsetOf(last.op, conf) > conf.charge_control.range_max

\* C17: for the charge threshold of every catalog profile, both offsets and every
\* decimal input p in 0..255, the store is rejected with the validation error and
\* without any register access whenever p + offset, taken without wrap-around, lies
\* outside [range_min, range_max]; the 8-bit wrap of p + offset never makes such an
\* input acceptable.
C17_WrappedSumRejected ==
  SumOutOfRangeStored =>
    /\ last.result = "EINVAL"
    /\ last.io = <<>>
    /\ ec = ec0

\* 255 stored through offset 0x8a: the sum 393 wraps to 0x89 and is rejected
C17_Witness ==
  /\ SumOutOfRangeStored
  /\ last.op = "charge_control_start_threshold_store"
  /\ conf.charge_control.offset_start = 138
  /\ last.arg = Digits(<<2, 5, 5>>, 0)
  /\ last.result = "EINVAL"

-----------------------------------------------------------------------------
(* The scenario of firmware 16S6EMS1.111                                     *)

\* C18: with the firmware identifier "16S6EMS1.111" the active configuration is the
\* profile whose allow-list holds it; its shift-mode table is exactly eco -> 0xc2,
\* comfort -> 0xc1, sport -> 0xc0; a store of "sport" issues exactly one register
\* access, a write of 0xc0 to that profile's shift-mode address; and a show that
\* reads 0xc0 there yields "sport".
C18_SportScenario ==
  (state = "live" /\ firmware = <<"16S6EMS1.111">>) =>
    /\ \E i \in DOMAIN CONFIGURATIONS :
         /\ "16S6EMS1.111" \in Range(CONFIGURATIONS[i].allowed_fw)
         /\ \A f \in FeatureFields : conf[f] = CONFIGURATIONS[i][f]
    /\ Range(conf.shift_mode.modes) =
         {[name |-> "eco", value |-> 194], [name |-> "comfort", value |-> 193],
          [name |-> "sport", value |-> 192]}
    /\ Len(conf.shift_mode.modes) = 3
    /\ (last.op = "shift_mode_store" /\ IsWordOf(last.arg, {"sport"})) =>
         /\ Len(last.io) = 1
         /\ last.io[1].kind = "w"
         /\ last.io[1].field = conf.shift_mode.address
         /\ last.io[1].addr = conf.shift_mode.address
         /\ last.io[1].val = 192
         /\ last.io[1].ok => (last.result = "OK" /\ ec[conf.shift_mode.address] = 192)
    /\ (last.op = "shift_mode_show" /\ NoTransportFailure(last) /\ last.io[1].val = 192) =>
         /\ last.result = "OK"
         /\ last.out = Out("sport", -1)
         /\ last.io[1].addr = conf.shift_mode.address

\* "sport" was stored, which changed the shift register to 0xc0, and then shown
C18_Witness ==
  /\ firmware = <<"16S6EMS1.111">>
  /\ nops = 2
  /\ last.op = "shift_mode_show"
  /\ last.out = Out("sport", -1)
  /\ ec[conf.shift_mode.address] = 192
  /\ ec0[conf.shift_mode.address] # 192

-----------------------------------------------------------------------------
(* Fan-speed percentages                                                     *)

\* the base_min and base_max a fan-speed show rescales with; the GPU block of a
\* profile declares none
FanSpeedBase ==
  [cpu_realtime_fan_speed_show |->
     <<conf.cpu.rt_fan_speed_base_min, conf.cpu.rt_fan_speed_base_max>>,
   cpu_basic_fan_speed_show |->
     <<conf.cpu.bs_fan_speed_base_min, conf.cpu.bs_fan_speed_base_max>>,
   gpu_realtime_fan_speed_show |-> <<0, 100>>]

\* the last call was a show of a fan-speed attribute whose register read succeeded
FanSpeedShown ==
  /\ nops >= 1
  /\ last.op \in DOMAIN FanSpeedBase
  /\ NoTransportFailure(last)

\* C19: each fan-speed percentage attribute (CPU realtime, CPU basic, GPU realtime)
\* either shows a value in 0..100 computed as (raw - base_min) * 100 /
\* (base_max - base_min), or, when the raw byte lies outside [base_min, base_max],
\* returns a read fault and shows no value; an out-of-range raw byte is never
\* clamped or reported as a number.
C19_FanSpeedPercentOrFault ==
  FanSpeedShown =>
    LET raw == last.io[1].val
        base_min == FanSpeedBase[last.op][1]
        base_max == FanSpeedBase[last.op][2]
    IN IF raw < base_min \/ raw > base_max
         THEN last.result = "EINVAL" /\ last.out = NoOut
       ELSE /\ last.result = "OK"
            /\ last.out.num \in 0..100
            /\ last.out.num * (base_max - base_min) <= (raw - base_min) * 100
            /\ (raw - base_min) * 100 < (last.out.num + 1) * (base_max - base_min)


-----------------------------------------------------------------------------
(* Allow-lists of the catalog *)

\* the identifiers listed by profile i
AllowList(i) ==
  {CONFIGURATIONS[i].allowed_fw[k] : k \in DOMAIN CONFIGURATIONS[i].allowed_fw}

\* the catalog profiles whose allow-lists share an identifier
OverlappingProfiles ==
  {p \in (DOMAIN CONFIGURATIONS) \X (DOMAIN CONFIGURATIONS) :
     p[1] < p[2] /\ AllowList(p[1]) \cap AllowList(p[2]) # {}}

\* C20: no two profiles of the catalog have overlapping allow-lists: every
\* identifier appears in at most one profile's allow-list, so the profile a
\* loaded module holds is the only one listing its identifier, whatever the
\* order in which the catalog is scanned.
C20_AllowListsDisjoint ==
  /\ OverlappingProfiles = {}
  /\ (state = "live" /\ conf_loaded) =>
       \E i \in DOMAIN CONFIGURATIONS :
         /\ MatchingProfiles = {i}
         /\ \A f \in FeatureFields : conf[f] = CONFIGURATIONS[i][f]

\* a module loaded for an identifier of ALLOWED_FW_8 holds CONF8, whose mode
\* table differs from that of CONF25, the profile of the neighbouring 14F1
\* revisions
C20_Witness ==
  /\ state = "live"
  /\ conf_loaded
  /\ firmware = <<"14F1EMS1.114">>
  /\ MatchingProfiles = {9}
  /\ conf.shift_mode = CONF8.shift_mode
  /\ conf.shift_mode # CONF25.shift_mode
  /\ nops >= 1

-----------------------------------------------------------------------------
(* The active configuration over the module lifetime *)

\* C21: the active configuration is written at most once, by load_configuration
\* inside msi_ec_init; every later step (show, store, LED, battery hook, debug
\* attribute, unload) leaves conf and conf_loaded as they are.
C21_ConfWrittenOnceAtInit ==
  [][(conf' # conf \/ conf_loaded' # conf_loaded) =>
       /\ state = "unloaded"
       /\ conf = ZeroConf /\ ~conf_loaded
       /\ last'.op = "msi_ec_init"]_vars

\* a debug write through ec_set changed a register of a module holding CONF11,
\* and the configuration is still the one load_configuration copied
C21_Witness ==
  /\ state = "live"
  /\ conf_loaded
  /\ last.op = "ec_set_store"
  /\ last.result = "OK"
  /\ ec # ec0
  /\ conf = CopyProfile(12)
  /\ conf.shift_mode = CONF11.shift_mode

-----------------------------------------------------------------------------
(* Attributes that share a register: the two key-swap attributes, the two     *)
(* charge thresholds with battery_mode, and the keyboard backlight's setter   *)
(* and getter. A loaded module on which one control is written and the        *)
(* controls of the same register are then read                                *)

\* handler calls made in a row on the controls of one register
MaxViews == 3

\* the handlers that work on one register
ViewFamilies ==
  {{"fn_key_show", "fn_key_store", "win_key_show", "win_key_store"},
   {"charge_control_start_threshold_show", "charge_control_start_threshold_store",
    "charge_control_end_threshold_show", "charge_control_end_threshold_store",
    "battery_mode_show", "battery_mode_store"},
   {"kbd_bl_sysfs_get", "kbd_bl_sysfs_set"}}

ViewStores == (UNION ViewFamilies) \cap DOMAIN ShowOfStore

ViewShows == (UNION ViewFamilies) \cap {ShowOfStore[s] : s \in DOMAIN ShowOfStore}

SameFamily(a, b) == \E F \in ViewFamilies : a \in F /\ b \in F

\* a store to one of the attributes is the first call made on the loaded module
ViewStore ==
  /\ state = "live"
  /\ nops = 0
  /\ \E op \in ViewStores :
       /\ HandlerControl[op] \in Exposed
       /\ \E buf \in StoreInputs(op), fault \in RmwFaults, uninit \in UninitResults :
            /\ fault = "read" => op \in ReadModifyWrites
            /\ uninit = "OK" \/ (op \in {"fn_key_store", "win_key_store"} /\ fault = "none")
            /\ Call(op, buf,
                    StoreHandler(op, ec, conf, buf, fault = "read", fault = "write", uninit))

\* an attribute of the register last worked on is read
ViewShow ==
  /\ state = "live"
  /\ nops >= 1
  /\ nops < MaxViews
  /\ \E op \in ViewShows :
       /\ SameFamily(last.op, op)
       /\ HandlerControl[op] \in Exposed
       /\ \E rfail, garbage \in BOOLEAN :
            /\ garbage => op \in ReadsUninitialised /\ rfail
            /\ Call(op, NoBuf, ShowHandler(op, ec, conf, rfail, garbage))

\* the LED core sets the brightness of the keyboard backlight
KbdBlSetView ==
  /\ state = "live"
  /\ nops = 0
  /\ "msiacpi_led_kbdlight" \in registered
  /\ \E b \in Brightness, wfail \in BOOLEAN :
       Call("kbd_bl_sysfs_set", Arg(b), kbd_bl_sysfs_set(ec, conf, b, FALSE, wfail))

\* the LED core reads the brightness after a set
KbdBlGetView ==
  /\ state = "live"
  /\ nops >= 1
  /\ nops < MaxViews
  /\ SameFamily(last.op, "kbd_bl_sysfs_get")
  /\ "msiacpi_led_kbdlight" \in registered
  /\ \E rfail \in BOOLEAN :
       Call("kbd_bl_sysfs_get", NoBuf, kbd_bl_sysfs_get(ec, conf, rfail))

\* led_classdev_unregister(&msiacpi_led_kbdlight): the LED core raises
\* LED_UNREGISTERING and triggers the setter with brightness 0
KbdBlUnregister ==
  /\ state = "live"
  /\ nops < MaxViews
  /\ nops = 0 \/ SameFamily(last.op, "kbd_bl_sysfs_set")
  /\ "msiacpi_led_kbdlight" \in registered
  /\ LET r == kbd_bl_sysfs_set(ec, conf, 0, TRUE, FALSE)
     IN /\ ec' = r.ec
        /\ last' = [op |-> "led_classdev_unregister", arg |-> Arg(0), result |-> r.result,
                    out |-> r.out, io |-> r.io]
  /\ nops' = nops + 1
  /\ registered' = registered \ {"msiacpi_led_kbdlight"}
  /\ UNCHANGED <<firmware, debug, ec_fw, conf_loaded, conf, state, init_result,
                 groups, battery_attrs, ec_get_addr, mutex, th, ec0>>

InitViews == Loaded(EncodeFill)

NextViews ==
  \/ ViewStore
  \/ ViewShow
  \/ KbdBlSetView
  \/ KbdBlGetView
  \/ KbdBlUnregister

SpecViews == InitViews /\ [][NextViews]_vars

-----------------------------------------------------------------------------
(* The key-swap attributes *)

KeySwapShows == {"fn_key_show", "win_key_show"}

KeySwapStores == {"fn_key_store", "win_key_store"}

OtherSide(w) == IF w = "left" THEN "right" ELSE "left"

\* this step is a show of one key-swap attribute right after a call of a handler of
\* the other one, and the transport failed in neither call
OtherKeyShown ==
  /\ nops' = nops + 1
  /\ last'.op \in KeySwapShows
  /\ last.op \in KeySwapShows \cup KeySwapStores
  /\ HandlerControl[last'.op] # HandlerControl[last.op]
  /\ NoTransportFailure(last)
  /\ NoTransportFailure(last')

\* C22: fn_key and win_key are mutually inverse views of the one key-swap bit: with
\* the register unchanged in between, the two shows report opposite sides, and after
\* a store of a side (left or right) to one attribute the show of the other attribute
\* reports the other side, for both values of invert.
C22_KeySwapViewsInverse ==
  [][OtherKeyShown =>
       /\ last'.result = "OK"
       /\ last'.out.text \in {"left", "right"}
       /\ last.op \in KeySwapShows => last'.out.text = OtherSide(last.out.text)
       /\ (last.op \in KeySwapStores /\ ValidInput(last.op, conf, last.arg)) =>
            /\ last.result = "OK"
            /\ last'.out.text = OtherSide(last.arg.word)]_vars

\* on a profile with invert set a store changed the key-swap register, and after
\* one more call win_key showed "left"
C22_Witness ==
  /\ nops = 3
  /\ conf.fn_win_swap.invert
  /\ last.op = "win_key_show"
  /\ NoTransportFailure(last)
  /\ last.out = Out("left", -1)
  /\ ec[conf.fn_win_swap.address % 256] # ec0[conf.fn_win_swap.address % 256]

-----------------------------------------------------------------------------
(* The raw byte 0x80 in the mode attributes *)

\* the last call was a mode show that read the raw byte 0x80
ModeShownAt0x80 == ModeShown /\ last.io[1].val = 128

\* the names declared by the mode tables of the catalog
CatalogModeNames ==
  UNION {NamesOf(CONFIGURATIONS[i].shift_mode.modes)
           \cup NamesOf(CONFIGURATIONS[i].fan_mode.modes) : i \in DOMAIN CONFIGURATIONS}

\* the shift tables and fan tables of the catalog that declare the raw value 0x80
TablesDeclaring0x80 ==
  {<<i, t>> \in (DOMAIN CONFIGURATIONS) \X {"shift_mode", "fan_mode"} :
     \E k \in DOMAIN CONFIGURATIONS[i][t].modes : CONFIGURATIONS[i][t].modes[k].value = 128}

\* C23 as stated: for every mode-table attribute (shift mode and fan mode) a raw
\* register value of 0x80 is shown as "unspecified", which is distinct from the
\* "unknown (raw value)" result and from every declared mode name.
C23_ModeShowsUnspecifiedAt0x80 ==
  ModeShownAt0x80 =>
    /\ last.out = Out("unspecified", -1)
    /\ "unspecified" \notin CatalogModeNames \cup {"unknown"}

\* C23, amended: shift_mode shows the raw byte 0x80 as "unspecified", which is no
\* declared mode name and not the "unknown" result, and no shift table declares 0x80;
\* fan_mode has no such case: it shows 0x80 as the name its table declares for it
\* (advanced, in the one fan table that declares 0x80) and as "unknown" carrying 128
\* under every other profile.
C23_ShiftModeShowsUnspecifiedAt0x80 ==
  /\ "unspecified" \notin CatalogModeNames \cup {"unknown"}
  /\ TablesDeclaring0x80 = {<<39, "fan_mode">>}
  /\ ModeShownAt0x80 =>
       /\ last.result = "OK"
       /\ last.op = "shift_mode_show" => last.out = Out("unspecified", -1)
       /\ last.op = "fan_mode_show" =>
            IF \E k \in DOMAIN conf.fan_mode.modes : conf.fan_mode.modes[k].value = 128
              THEN last.out = Out("advanced", -1)
            ELSE last.out = Out("unknown", 128)

\* the fan register of the profile whose fan table declares advanced = 0x80 held
\* 0x80 and was shown as advanced
C23_Witness ==
  /\ ModeShownAt0x80
  /\ last.op = "fan_mode_show"
  /\ conf.fan_mode = CONF38.fan_mode
  /\ last.out = Out("advanced", -1)

-----------------------------------------------------------------------------
(* The battery_mode presets *)

\* the raw byte the claim gives for each preset name under profile c
PresetByte(c, name) ==
  CASE name = "max" -> c.charge_control.range_max
    [] name = "medium" -> c.charge_control.offset_end + 80
    [] name = "min" -> c.charge_control.offset_end + 60

PresetNames == {"max", "medium", "min"}

\* the catalog profiles in which two presets share a raw byte
ProfilesWithEqualPresets ==
  {i \in DOMAIN CONFIGURATIONS :
     \E a, b \in PresetNames :
       a # b /\ PresetByte(CONFIGURATIONS[i], a) = PresetByte(CONFIGURATIONS[i], b)}

\* C24: battery_mode store of a preset name (max, medium, min) issues exactly one
\* write, of that preset's raw byte (range_max, offset_end + 80, offset_end + 60), to
\* the charge-control address, and a battery_mode show that follows returns the same
\* name; in every catalog profile the three bytes are pairwise distinct; and any other
\* raw byte is shown as "unknown" with the raw value.
C24_BatteryModePresets ==
  [][nops' = nops + 1 =>
       /\ ProfilesWithEqualPresets = {}
       /\ (last'.op = "battery_mode_store" /\ ValidInput(last'.op, conf, last'.arg)) =>
            /\ last'.io = <<IoWrite(conf.charge_control.address,
                                    conf.charge_control.address % 256,
                                    PresetByte(conf, last'.arg.word), last'.io[1].ok)>>
            /\ last'.io[1].ok => last'.result = "OK"
       /\ (last'.op = "battery_mode_show" /\ NoTransportFailure(last')) =>
            /\ last'.result = "OK"
            /\ (/\ last.op = "battery_mode_store"
                /\ ValidInput(last.op, conf, last.arg)
                /\ NoTransportFailure(last)) => last'.out = Out(last.arg.word, -1)
            /\ (\A n \in PresetNames : last'.io[1].val # PresetByte(conf, n)) =>
                 last'.out = Out("unknown", last'.io[1].val)]_vars

\* battery_mode was stored as medium and shown as medium
C24_Witness ==
  /\ nops = 2
  /\ last.op = "battery_mode_show"
  /\ last.out = Out("medium", -1)
  /\ ec[conf.charge_control.address] = conf.charge_control.offset_end + 80
  /\ ec0[conf.charge_control.address] = 0

-----------------------------------------------------------------------------
(* The base values of the CPU fan-speed attributes *)

\* the last call was a show of a CPU fan-speed attribute
CpuFanSpeedShowCalled ==
  /\ nops >= 1
  /\ last.op \in {"cpu_realtime_fan_speed_show", "cpu_basic_fan_speed_show"}

\* C25: for every catalog profile and every CPU fan-speed range feature that is not
\* hidden (address not Unsupported), base_max > base_min holds, so the percentage
\* show does not divide by zero for any raw byte the register may hold.
C25_FanSpeedBaseRangeNonEmpty ==
  CpuFanSpeedShowCalled =>
    /\ FanSpeedBase[last.op][2] > FanSpeedBase[last.op][1]
    /\ last.result # "DIVIDE_ERROR"

-----------------------------------------------------------------------------
(* Termination of the read-modify-write primitives *)

\* the steps of caller t
RmwStep(t) == RmwLock(t) \/ RmwRead(t) \/ RmwWrite(t) \/ RmwUnlock(t)

\* the scheduler runs every caller that can take a step; a caller blocked in
\* mutex_lock is not runnable until the mutex is free
SpecRmwFair == SpecRmw /\ \A t \in Threads : WF_vars(RmwStep(t))

\* the mutexes caller t holds
HeldBy(t) == {m \in Mutexes : mutex[m] = t}

\* a caller holds no mutex before it has locked and after it has returned, and
\* exactly its own mutex in between
MutexHeldOnlyInside ==
  \A t \in Threads :
    IF th[t].pc \in {"lock", "done"} THEN HeldBy(t) = {}
    ELSE HeldBy(t) = {MutexOf(th[t].op)}

\* C26: every started ec_set_bit, ec_set_by_mask or ec_unset_by_mask call eventually
\* returns, with success or the I/O error, and has released its mutex when it
\* returns, on the read-failure path as well; a call never holds more than one
\* mutex, and under fair scheduling every caller waiting for the mutex acquires it.
C26_CallsReturnUnlocked ==
  /\ []MutexHeldOnlyInside
  /\ \A t \in Threads : (th[t].pc = "lock") ~> (mutex[MutexOf(th[t].op)] = t)
  /\ \A t \in Threads : <>(th[t].pc = "done" /\ th[t].result \in {"OK", "EIO"})
  /\ <>[](\A m \in Mutexes : mutex[m] = 0)

\* a caller whose read failed still holds the mutex, about to unlock, while a second
\* caller of the same primitive waits in mutex_lock
C26_Witness ==
  \E t, u \in Threads :
    /\ th[t].pc = "unlock"
    /\ th[t].result = "EIO"
    /\ ec = ec0
    /\ mutex[MutexOf(th[t].op)] = t
    /\ th[u].pc = "lock"
    /\ MutexOf(th[u].op) = MutexOf(th[t].op)

-----------------------------------------------------------------------------
(* Failures inside a read-modify-write call *)

\* this step is a store that reaches ec_set_bit, ec_set_by_mask or ec_unset_by_mask
RmwStoreStep ==
  /\ nops' = nops + 1
  /\ last'.op \in ReadModifyWrites
  /\ ValidInput(last'.op, conf, last'.arg)

\* C27: if the read half of a bit or mask mutation fails, the call returns that error
\* without issuing any write, so the register keeps its previous value; if the write
\* half fails, the write error is returned.
C27_FailedHalfReported ==
  [][RmwStoreStep =>
       LET io == last'.io
       IN /\ Len(io) >= 1
          /\ io[1].kind = "r"
          /\ IF ~io[1].ok
               THEN /\ Len(io) = 1
                    /\ last'.result = "EIO"
                    /\ ec' = ec
             ELSE /\ Len(io) = 2
                  /\ io[2].kind = "w"
                  /\ io[2].addr = io[1].addr
                  /\ last'.result = (IF io[2].ok THEN "OK" ELSE "EIO")
                  /\ ~io[2].ok => ec' = ec]_vars

\* super_battery "on", which goes through ec_set_by_mask, met a failed read: the
\* call returned the I/O error after that one read and the registers are as before
C27_Witness ==
  /\ nops = 1
  /\ last.op = "super_battery_store"
  /\ last.arg = Word("on", 0)
  /\ Len(last.io) = 1
  /\ ~last.io[1].ok
  /\ last.result = "EIO"
  /\ ec = ec0

-----------------------------------------------------------------------------
(* The charge register seen through both thresholds *)

\* this step is a threshold show of a raw byte other than 0x80 that met no transport
\* failure
ThresholdShownStep ==
  /\ nops' = nops + 1
  /\ last'.op \in ThresholdShows
  /\ NoTransportFailure(last')
  /\ last'.io[1].val # 128

\* the previous call was a store to the charge register (either threshold or
\* battery_mode) that was accepted and written
ChargeStored ==
  /\ last.op \in ThresholdStores \cup {"battery_mode_store"}
  /\ last.result = "OK"

\* C28: the start threshold, the end threshold and battery_mode are three views of
\* one register: after a successful threshold or battery_mode store, which never
\* leaves the raw value 0x80, the value shown by the end threshold minus the value
\* shown by the start threshold is offset_start - offset_end, 10 for every catalog
\* profile, so a store to one threshold changes the value shown by the other.
C28_ThresholdsTenApart ==
  [][ThresholdShownStep =>
       /\ conf.charge_control.offset_start - conf.charge_control.offset_end = 10
       /\ ChargeStored =>
            /\ ec[conf.charge_control.address] # 128
            /\ last'.result = "OK"
            /\ last.op = "charge_control_start_threshold_store" =>
                 last'.out.num = DecValue(last.arg.digits)
                                   + (IF last'.op = "charge_control_end_threshold_show"
                                        THEN 10 ELSE 0)
            /\ last.op = "charge_control_end_threshold_store" =>
                 last'.out.num = DecValue(last.arg.digits)
                                   - (IF last'.op = "charge_control_start_threshold_show"
                                        THEN 10 ELSE 0)
       /\ (/\ last.op \in ThresholdShows
           /\ last.op # last'.op
           /\ NoTransportFailure(last)) =>
            /\ last'.result = "OK"
            /\ last.result = "OK"
            /\ (IF last'.op = "charge_control_end_threshold_show"
                  THEN last'.out.num - last.out.num
                ELSE last.out.num - last'.out.num) = 10]_vars

\* the start threshold was stored as 20; the start threshold then showed 20 and the
\* end threshold 30
C28_Witness ==
  /\ nops = 3
  /\ last.op = "charge_control_end_threshold_show"
  /\ last.out = Out("", 30)
  /\ ec[conf.charge_control.address] = 158
  /\ ec0[conf.charge_control.address] # 158

-----------------------------------------------------------------------------
(* Registration and teardown *)

\* the kernel objects msi_ec_init registers when every registration succeeds
RegisteredByInit(c, loaded) ==
  {"msi_platform_driver", "msi_platform_device"}
    \cup (IF loaded THEN {"battery_hook"} \cup LedsOf(c) ELSE {})

\* the attribute groups msi_platform_probe creates when it succeeds
CreatedByProbe(dbg, loaded) == msi_platform_probe(dbg, loaded, FALSE, FALSE).groups

\* for every profile of the catalog, loaded or replaced by the zeroed configuration
\* of a debug load without a match, and both values of debug, msi_ec_exit and
\* msi_platform_remove undo what msi_ec_init and msi_platform_probe set up
CatalogTeardownSymmetric ==
  \A i \in DOMAIN CONFIGURATIONS, dbg \in BOOLEAN, loaded \in BOOLEAN :
    LET c == IF loaded THEN CopyProfile(i) ELSE ZeroConf
    IN /\ msi_ec_exit_unregisters(c, loaded) = RegisteredByInit(c, loaded)
       /\ msi_platform_remove(dbg, loaded) = CreatedByProbe(dbg, loaded)

\* this step is the unload of a live module
ExitStep == state = "live" /\ state' = "exited"

\* C29: registration and teardown are symmetric: the LED classdevs and the battery
\* hook msi_ec_exit unregisters are exactly those a successful msi_ec_init registers,
\* and the attribute groups msi_platform_remove removes are exactly those
\* msi_platform_probe creates, for every combination of debug, conf_loaded and LED
\* addresses; whatever was registered at unload is covered, and nothing stays behind.
C29_TeardownMirrorsRegistration ==
  [][ExitStep =>
       /\ CatalogTeardownSymmetric
       /\ msi_ec_exit_unregisters(conf, conf_loaded) = RegisteredByInit(conf, conf_loaded)
       /\ msi_platform_remove(debug, conf_loaded) = CreatedByProbe(debug, conf_loaded)
       /\ registered \subseteq msi_ec_exit_unregisters(conf, conf_loaded)
       /\ groups \subseteq msi_platform_remove(debug, conf_loaded)
       /\ registered' = {}
       /\ groups' = {}]_vars

\* a module holding a profile with some but not all of the three LEDs has been
\* unloaded: the LED core called a setter of a registered LED on the way, and no
\* classdev, hook or group is left
C29_Witness ==
  /\ state = "exited"
  /\ conf_loaded
  /\ LedsOf(conf) \notin {AllLeds, {}}
  /\ last.op = "msi_ec_exit"
  /\ Len(last.io) >= 1
  /\ registered = {}
  /\ groups = {}

-----------------------------------------------------------------------------
(* The keyboard backlight *)

\* C30: for every catalog profile that exposes the keyboard backlight and every
\* brightness b in 0..3, setting b writes state_base_value | b to the state address
\* and a following brightness read returns b; a brightness above 3 is rejected with
\* no write; and a set call made while the LED is unregistering issues no write.
C30_KbdBacklightSetThenGet ==
  [][nops' = nops + 1 =>
       /\ last'.op = "kbd_bl_sysfs_set" =>
            IF last'.arg.digits[1] \in 0..3
              THEN last'.io = <<IoWrite(conf.kbd_bl.bl_state_address,
                                        conf.kbd_bl.bl_state_address % 256,
                                        u8_or(conf.kbd_bl.state_base_value,
                                              last'.arg.digits[1]),
                                        last'.io[1].ok)>>
            ELSE last'.io = <<>> /\ last'.result # "OK" /\ ec' = ec
       /\ last'.op = "led_classdev_unregister" => (last'.io = <<>> /\ ec' = ec)
       /\ (/\ last.op = "kbd_bl_sysfs_set"
           /\ last.arg.digits[1] \in 0..3
           /\ NoTransportFailure(last)
           /\ last'.op = "kbd_bl_sysfs_get"
           /\ NoTransportFailure(last')) => last'.out.num = last.arg.digits[1]]_vars
=============================================================================
